---------------------------- MODULE Spec2Model ----------------------------
(***************************************************************************)
(* Model of the polyline geometry utilities of middle-pub                  *)
(* (src/app/lib/utils/coordinates.ts): decodePolyline, haversineDistance,  *)
(* getPositionOnPolyline, parseDurationToSeconds,                          *)
(* getRouteMidpointByDuration and filterPositionsWithinThreshold.          *)
(*                                                                         *)
(* The functions are pure; each is an operator computed the way the code   *)
(* computes it, and the state machine is a caller that is idle, calls one  *)
(* function on arguments drawn from bounded sets, holds the outcome, and   *)
(* drops it again.  A call of getRouteMidpointByDuration also leaves a     *)
(* trace: the return statement it took, its loop variables there, and the  *)
(* arguments of the calls it made.                                         *)
(*                                                                         *)
(* Code that runs in steps has a variable and a specification of its own:  *)
(* decodePolyline taken one loop step at a time (DecodeSpec), the hook     *)
(* useDebounce under a clock (DebounceSpec), the POST handler of           *)
(* /api/routes (RouteSpec), the suggest requests of MapSearch              *)
(* (SearchSpec) and the paging loop of fetchAllPubs (PubsSpec).            *)
(*                                                                         *)
(* Representation.                                                         *)
(*  - A JavaScript string is the sequence of its UTF-16 code units.        *)
(*  - A JavaScript number that is not known to be an int32 is a record     *)
(*    [d, n]: the rational n/d in lowest terms with d > 0, or NaN, written *)
(*    [d |-> 0, n |-> 0].  Arithmetic on them is exact (no rounding).      *)
(*  - int32 values of the bit operators are integers in -2^31 .. 2^31-1.   *)
(*  - A coordinate is the pair <<lng, lat>> of numbers.                    *)
(***************************************************************************)
EXTENDS Integers, Sequences, FiniteSets, TLC

VARIABLES
    call,       \* the call in progress or just made: [fn |-> name, arguments...]
    result,     \* its outcome: [kind |-> "none" | "value" | "null" | "throw", ...]
    trace,      \* where a call of getRouteMidpointByDuration returned, and
                \* what it decoded and interpolated on the way
    decoder,    \* a run of decodePolyline taken one loop step at a time:
                \* its local variables and where it stands
    debounce,   \* a component that uses useDebounce: the hook's arguments
                \* and state, and the timers its effects have set
    route,      \* a request to POST /api/routes: what it carries, where the
                \* handler stands, its upstream calls and its answer
    search,     \* a mounted MapSearch: its debounced query, its suggest
                \* requests in flight and the results it shows
    pubs        \* a run of fetchAllPubs: its local variables, the requests
                \* it has made, the pages it received and its outcome

vars == <<call, result, trace, decoder, debounce, route, search, pubs>>

\* the variables of the caller, and those of the other machines
callerVars == <<call, result, trace>>

machineVars == <<decoder, debounce, route, search, pubs>>

---------------------------------------------------------------------------
(* Bounds of the model *)

\* longest raw string over Alphabet handed to decodePolyline
MaxLen == 3
\* deltas -MaxDelta .. MaxDelta are zig-zag encoded and handed to decodePolyline
MaxDelta == 20
\* longest path handed to getPositionOnPolyline
MaxPath == 3

---------------------------------------------------------------------------
(* Integer helpers *)

Abs(x) == IF x < 0 THEN -x ELSE x

RECURSIVE Gcd(_, _)
Gcd(a, b) == IF b = 0 THEN a ELSE Gcd(b, a % b)

RECURSIVE Pow(_, _)
Pow(b, e) == IF e = 0 THEN 1 ELSE b * Pow(b, e - 1)

---------------------------------------------------------------------------
(* JavaScript numbers: exact rationals and NaN *)

NaN == [d |-> 0, n |-> 0]

IsNaN(x) == x.d = 0

\* the number a/b, b # 0, in lowest terms
Rat(a, b) ==
    LET g == Gcd(Abs(a), Abs(b))
        s == IF b < 0 THEN -1 ELSE 1
    IN  [d |-> s * (b \div g), n |-> s * (a \div g)]

Num(a) == [d |-> 1, n |-> a]

Lcm(a, b) == (a \div Gcd(a, b)) * b

\* x + y
NAdd(x, y) ==
    IF IsNaN(x) \/ IsNaN(y) THEN NaN
    ELSE LET l == Lcm(x.d, y.d)
         IN  Rat(x.n * (l \div x.d) + y.n * (l \div y.d), l)

\* -x
NNeg(x) == IF IsNaN(x) THEN NaN ELSE [d |-> x.d, n |-> -x.n]

\* x - y
NSub(x, y) == NAdd(x, NNeg(y))

\* x * y, cancelling across before multiplying
NMul(x, y) ==
    IF IsNaN(x) \/ IsNaN(y) THEN NaN
    ELSE LET g1 == Gcd(Abs(x.n), y.d)
             g2 == Gcd(Abs(y.n), x.d)
         IN  [d |-> (x.d \div g2) * (y.d \div g1),
              n |-> (x.n \div g1) * (y.n \div g2)]

\* x / y for y # 0 (every division of the code is behind a guard y > 0, or
\* divides by a power of ten)
NDiv(x, y) ==
    IF IsNaN(x) \/ IsNaN(y) THEN NaN
    ELSE NMul(x, Rat(y.d, y.n))

\* x === y : false when either is NaN
NEq(x, y) == ~IsNaN(x) /\ ~IsNaN(y) /\ x = y

\* x <= y, x >= y, x > y : false when either is NaN
NLe(x, y) ==
    /\ ~IsNaN(x)
    /\ ~IsNaN(y)
    /\ LET l == Lcm(x.d, y.d) IN x.n * (l \div x.d) <= y.n * (l \div y.d)

NGe(x, y) == NLe(y, x)

NGt(x, y) == ~IsNaN(x) /\ ~IsNaN(y) /\ ~NLe(x, y)

\* Math.min, Math.max : NaN when either is NaN
MathMin(x, y) == IF IsNaN(x) \/ IsNaN(y) THEN NaN ELSE IF NLe(x, y) THEN x ELSE y

MathMax(x, y) == IF IsNaN(x) \/ IsNaN(y) THEN NaN ELSE IF NLe(x, y) THEN y ELSE x

---------------------------------------------------------------------------
(* int32 bit operators *)

MinInt32 == -2147483647 - 1

\* x & 1 : the lowest bit of a two's complement int32
LowBit(x) == x % 2

\* x >> 1 : arithmetic shift
Sar1(x) == x \div 2

\* ~x
BitNot(x) == -x - 1

\* a | b on two's complement int32
RECURSIVE BitOr(_, _)
BitOr(a, b) ==
    IF a = 0 THEN b
    ELSE IF b = 0 THEN a
    ELSE IF a = -1 \/ b = -1 THEN -1
    ELSE 2 * BitOr(a \div 2, b \div 2) + (IF a % 2 = 1 \/ b % 2 = 1 THEN 1 ELSE 0)

\* c << shift for 0 <= c < 32 : the shift count is taken modulo 32 and the
\* bits pushed past bit 31 are lost
Shl(c, shift) ==
    LET s    == shift % 32
        keep == 31 - s                         \* bits of c below the sign bit
    IN  IF keep >= 5
        THEN c * Pow(2, s)                     \* all five bits fit below bit 31
        ELSE (IF keep = 0 THEN 0 ELSE (c % Pow(2, keep)) * Pow(2, s))
             + (IF (c \div Pow(2, keep)) % 2 = 1 THEN MinInt32 ELSE 0)

---------------------------------------------------------------------------
(* Outcomes of a call *)

\* a coordinate returned
Returned(v) == [kind |-> "value", value |-> v]

\* a sequence of coordinates returned
ReturnedCoordinates(cs) == [coordinates |-> cs, kind |-> "value"]

---------------------------------------------------------------------------
(* decodePolyline, coordinates.ts 20-65 *)

\* mutant: the offset taken as 64
ByteAtOffset64(encoded, index) ==
    IF index < Len(encoded)
    THEN [nan |-> FALSE, v |-> encoded[index + 1] - 64]
    ELSE [nan |-> TRUE, v |-> 0]

\* encoded.charCodeAt(index) - 63, index 0-based: [nan |-> TRUE] past the
\* end of the string (charCodeAt gives NaN there, and NaN - 63 is NaN)
ByteAt(encoded, index) ==
    IF index < Len(encoded)
    THEN [nan |-> FALSE, v |-> encoded[index + 1] - 63]
    ELSE [nan |-> TRUE, v |-> 0]

\* byte & 0x1f : ToInt32(NaN) is 0; the low five bits of a two's complement
\* integer otherwise
Chunk(byte) == IF byte.nan THEN 0 ELSE byte.v % 32

\* mutant: the test written !(byte < 0x20), which NaN passes
ContinuesUnlessBelow(byte) == byte.nan \/ byte.v >= 32

\* mutant: byte > 0x20
ContinuesStrict(byte) == ~byte.nan /\ byte.v > 32

\* byte >= 0x20 : false for NaN
Continues(byte) == ~byte.nan /\ byte.v >= 32

\* one do { ... } while (byte >= 0x20) loop (lines 37-41 and 50-54), entered
\* with shift and res; gives the loop's result and the index after it
RECURSIVE DecodeGroup(_, _, _, _)
DecodeGroup(encoded, index, shift, res) ==
    LET byte == ByteAt(encoded, index)
        r2   == BitOr(res, Shl(Chunk(byte), shift))
    IN  IF Continues(byte)
        THEN DecodeGroup(encoded, index + 1, shift + 5, r2)
        ELSE [index |-> index + 1, result |-> r2]

\* mutant: the odd case negated instead of complemented
UnzigzagNegate(res) == IF LowBit(res) = 1 THEN -Sar1(res) ELSE Sar1(res)

\* result & 1 ? ~(result >> 1) : result >> 1   (lines 43 and 56)
Unzigzag(res) == IF LowBit(res) = 1 THEN BitNot(Sar1(res)) ELSE Sar1(res)

\* mutant: the pair pushed in the encoding's own order, latitude first
PushedLatFirst(lat, lng, factor) == <<Rat(lat, factor), Rat(lng, factor)>>

\* the pair pushed at line 61: longitude first
Pushed(lat, lng, factor) == <<Rat(lng, factor), Rat(lat, factor)>>

\* the while loop of lines 31-62
RECURSIVE DecodeLoop(_, _, _, _, _, _)
DecodeLoop(encoded, factor, index, lat, lng, coordinates) ==
    IF ~(index < Len(encoded)) THEN coordinates
    ELSE LET g1   == DecodeGroup(encoded, index, 0, 0)
             lat2 == lat + Unzigzag(g1.result)
             g2   == DecodeGroup(encoded, g1.index, 0, 0)
             lng2 == lng + Unzigzag(g2.result)
         IN  DecodeLoop(encoded, factor, g2.index, lat2, lng2,
                        Append(coordinates, Pushed(lat2, lng2, factor)))

DecodePolyline(encoded, precision) ==
    DecodeLoop(encoded, Pow(10, precision), 0, 0, 0, <<>>)

\* precision defaults to 5 (line 22)
DefaultPrecision == 5

---------------------------------------------------------------------------
(* Inputs of decodePolyline *)

\* code units the raw strings are made of: '>' (below the offset 63), '?'
\* '@' 'A' (chunks 0 1 2, ending a group), '_' '`' '~' (chunks 0 1 31 with the
\* continuation bit)
Alphabet == {62, 63, 64, 95, 96, 126}

RECURSIVE SeqsUpTo(_, _)
SeqsUpTo(S, n) ==
    IF n = 0 THEN {<<>>}
    ELSE LET shorter == SeqsUpTo(S, n - 1)
         IN  shorter \cup {Append(s, x) : s \in shorter, x \in S}

RawStrings == SeqsUpTo(Alphabet, MaxLen)

\* "_p~iF~ps|U_ulLnnqC_mqNvxq`@", the example of the format's documentation
Canonical ==
    <<95, 112, 126, 105, 70, 126, 112, 115, 124, 85, 95, 117, 108, 76,
      110, 110, 113, 67, 95, 109, 113, 78, 118, 120, 113, 96, 64>>

Precisions == {5, 6}

\* The reference encoder of the format (not part of the repository): the
\* zig-zag value of a signed delta, its 5-bit chunks least significant first,
\* each but the last with the continuation bit, each offset by 63.
ZigZag(d) == IF d < 0 THEN -2 * d - 1 ELSE 2 * d

RECURSIVE EncodeUnsigned(_)
EncodeUnsigned(v) ==
    IF v >= 32 THEN <<(v % 32) + 32 + 63>> \o EncodeUnsigned(v \div 32)
    ELSE <<v + 63>>

EncodeValue(d) == EncodeUnsigned(ZigZag(d))

\* deltas: a sequence of pairs <<deltaLat, deltaLng>>
RECURSIVE EncodePath(_)
EncodePath(deltas) ==
    IF deltas = <<>> THEN <<>>
    ELSE EncodeValue(Head(deltas)[1]) \o EncodeValue(Head(deltas)[2])
         \o EncodePath(Tail(deltas))

\* delta sequences the caller encodes: every single pair of small deltas,
\* and every sequence of up to MaxPairs pairs of a few deltas of one, two,
\* three and four characters
MaxPairs == 2

DeltaValues == {-512, 0, 1, 100000}

DeltaPaths ==
    {<<<<a, b>>>> : a \in -MaxDelta .. MaxDelta, b \in -MaxDelta .. MaxDelta}
    \cup SeqsUpTo(DeltaValues \X DeltaValues, MaxPairs)

---------------------------------------------------------------------------
(* haversineDistance, coordinates.ts 73-92 *)

\* Earth's radius in metres (line 77)
R == 6371000

\* mutant: the differences taken with their sign
CentralAngleSigned(coord1, coord2) ==
    LET dLat == NSub(coord2[2], coord1[2])
        dLng == NSub(coord2[1], coord1[1])
    IN  IF dLng.n = 0 THEN dLat ELSE dLng

\* The angle c of line 89, in degrees, where it has a closed form: for two
\* points on one meridian a = sin^2(dLat/2), so c = |dLat|; for two points on
\* the equator a = sin^2(dLng/2), so c = |dLng|, or 360 - |dLng| beyond the
\* antipode.  Other pairs have no exact value here and are not evaluated
\* (the CASE has no arm for them); the paths of the model stay on one
\* meridian or on the equator.
CentralAngle(coord1, coord2) ==
    LET dLat == NSub(coord2[2], coord1[2])
        dLng == NSub(coord2[1], coord1[1])
        abs(x) == IF x.n < 0 THEN NNeg(x) ELSE x
    IN  CASE dLng.n = 0 /\ NLe(abs(dLat), Num(180)) -> abs(dLat)
          [] dLng.n # 0 /\ coord1[2].n = 0 /\ coord2[2].n = 0
             /\ NLe(abs(dLng), Num(180)) -> abs(dLng)
          [] dLng.n # 0 /\ coord1[2].n = 0 /\ coord2[2].n = 0
             /\ NGt(abs(dLng), Num(180)) /\ NLe(abs(dLng), Num(360)) ->
                NSub(Num(360), abs(dLng))

\* R * c with c in radians, i.e. R * degrees * pi / 180.  The value is kept
\* as the rational multiple of pi: the distance in metres divided by pi.
HaversineDistance(coord1, coord2) ==
    IF \E k \in 1..2 : IsNaN(coord1[k]) \/ IsNaN(coord2[k]) THEN NaN
    ELSE NDiv(NMul(Num(R), CentralAngle(coord1, coord2)), Num(180))

---------------------------------------------------------------------------
(* getPositionOnPolyline, coordinates.ts 100-163 *)

Thrown(message) == [kind |-> "throw", message |-> message]

EmptyPathMessage == "Polyline must have at least one coordinate"

\* mutant: the lower bound forgotten
ClampAbove(position) == MathMin(Num(1), position)

\* Math.max(0, Math.min(1, position))   (line 113)
Clamp(position) == MathMax(Num(0), MathMin(Num(1), position))

\* segmentLengths of lines 124-131
SegmentLengths(polyline) ==
    [i \in 1 .. Len(polyline) - 1 |->
        HaversineDistance(polyline[i], polyline[i + 1])]

\* the sum of a sequence of numbers, left to right from 0
RECURSIVE SumFrom(_, _, _)
SumFrom(xs, i, acc) ==
    IF i > Len(xs) THEN acc ELSE SumFrom(xs, i + 1, NAdd(acc, xs[i]))

Sum(xs) == SumFrom(xs, 1, Num(0))

\* mutant: the division made whatever the length; the walk only selects a
\* segment of length 0 with nothing remaining, and 0 / 0 is NaN
SegmentRatioUnguarded(remainingDistance, segmentLength) ==
    IF ~IsNaN(segmentLength) /\ segmentLength.n = 0 THEN NaN
    ELSE NDiv(remainingDistance, segmentLength)

\* segmentLength > 0 ? remainingDistance / segmentLength : 0   (145-146)
SegmentRatio(remainingDistance, segmentLength) ==
    IF NGt(segmentLength, Num(0)) THEN NDiv(remainingDistance, segmentLength)
    ELSE Num(0)

\* mutant: the difference added to the end of the segment
InterpolateFromEnd(startCoord, endCoord, segmentRatio) ==
    <<NAdd(endCoord[1], NMul(NSub(endCoord[1], startCoord[1]), segmentRatio)),
      NAdd(endCoord[2], NMul(NSub(endCoord[2], startCoord[2]), segmentRatio))>>

\* start + (end - start) * ratio on both components   (152-153)
Interpolate(startCoord, endCoord, segmentRatio) ==
    <<NAdd(startCoord[1], NMul(NSub(endCoord[1], startCoord[1]), segmentRatio)),
      NAdd(startCoord[2], NMul(NSub(endCoord[2], startCoord[2]), segmentRatio))>>

\* mutant: the element before the last
LastCoordinateOffByOne(polyline) == polyline[Len(polyline) - 1]

\* polyline[polyline.length - 1]   (lines 120 and 162)
LastCoordinate(polyline) == polyline[Len(polyline)]

\* mutant: line 158 left out, the accumulated distance stays 0
RECURSIVE WalkSegmentsNoAccumulate(_, _, _, _, _)
WalkSegmentsNoAccumulate(polyline, segmentLengths, targetDistance, i, accumulated) ==
    IF ~(i < Len(segmentLengths)) THEN LastCoordinate(polyline)
    ELSE LET segmentLength == segmentLengths[i + 1]
         IN  IF NGe(NAdd(accumulated, segmentLength), targetDistance)
             THEN Interpolate(polyline[i + 1], polyline[i + 2],
                              SegmentRatio(NSub(targetDistance, accumulated),
                                           segmentLength))
             ELSE WalkSegmentsNoAccumulate(polyline, segmentLengths,
                                           targetDistance, i + 1,
                                           accumulated)

\* the walk of lines 139-162, i 0-based as in the code
RECURSIVE WalkSegments(_, _, _, _, _)
WalkSegments(polyline, segmentLengths, targetDistance, i, accumulatedDistance) ==
    IF ~(i < Len(segmentLengths)) THEN LastCoordinate(polyline)
    ELSE LET segmentLength == segmentLengths[i + 1]
         IN  IF NGe(NAdd(accumulatedDistance, segmentLength), targetDistance)
             THEN Interpolate(polyline[i + 1], polyline[i + 2],
                              SegmentRatio(NSub(targetDistance, accumulatedDistance),
                                           segmentLength))
             ELSE WalkSegments(polyline, segmentLengths, targetDistance, i + 1,
                               NAdd(accumulatedDistance, segmentLength))

\* lines 112-162, for a polyline of two or more coordinates
PositionAlong(polyline, position) ==
    LET clampedPosition == Clamp(position)
    IN  IF NEq(clampedPosition, Num(0)) THEN polyline[1]
        ELSE IF NEq(clampedPosition, Num(1)) THEN LastCoordinate(polyline)
        ELSE LET segmentLengths == SegmentLengths(polyline)
                 totalLength    == Sum(segmentLengths)
             IN  WalkSegments(polyline, segmentLengths,
                              NMul(clampedPosition, totalLength), 0, Num(0))

\* mutant: the guard of line 104 left out; every read of the empty array
\* gives undefined, and so does the call
GetPositionOnPolylineUnguarded(polyline, position) ==
    IF Len(polyline) = 0 THEN Returned(<<>>)
    ELSE IF Len(polyline) = 1 THEN Returned(polyline[1])
    ELSE Returned(PositionAlong(polyline, position))

\* mutant: the guard of line 104 written polyline.length <= 1
GetPositionOnPolylineNeedsTwo(polyline, position) ==
    IF Len(polyline) <= 1 THEN Thrown(EmptyPathMessage)
    ELSE Returned(PositionAlong(polyline, position))

GetPositionOnPolyline(polyline, position) ==
    IF Len(polyline) = 0 THEN Thrown(EmptyPathMessage)
    ELSE IF Len(polyline) = 1 THEN Returned(polyline[1])
    ELSE Returned(PositionAlong(polyline, position))

---------------------------------------------------------------------------
(* Inputs of getPositionOnPolyline *)

\* degrees used for the points of a path
Degrees == {0, 1, 3}

MeridianPoints == {<<Num(0), Num(k)>> : k \in Degrees}

EquatorPoints == {<<Num(k), Num(0)>> : k \in Degrees}

Paths == SeqsUpTo(MeridianPoints, MaxPath) \cup SeqsUpTo(EquatorPoints, MaxPath)

Positions ==
    {Num(-1), Rat(-1, 2), Num(0), Rat(1, 4), Rat(1, 2), Rat(3, 4), Num(1),
     Rat(3, 2), Num(2), NaN}

---------------------------------------------------------------------------
(* parseDurationToSeconds, coordinates.ts 170-173 *)

\* an optional property: absent (undefined), or present with value v
None == [some |-> FALSE]

Some(v) == [some |-> TRUE, v |-> v]

\* code units
CharS == 115

CharDot == 46

CharMinus == 45

CharPlus == 43

IsDigit(c) == c >= 48 /\ c <= 57

IsSpace(c) == c \in {9, 10, 11, 12, 13, 32}

\* str.replace("s", "") : the first "s" removed, if there is one
RECURSIVE ReplaceFirstS(_)
ReplaceFirstS(str) ==
    IF str = <<>> THEN <<>>
    ELSE IF Head(str) = CharS THEN Tail(str)
    ELSE <<Head(str)>> \o ReplaceFirstS(Tail(str))

RECURSIVE TrimStart(_)
TrimStart(str) ==
    IF str # <<>> /\ IsSpace(Head(str)) THEN TrimStart(Tail(str)) ELSE str

\* the number of leading digits of str
RECURSIVE DigitRun(_)
DigitRun(str) ==
    IF str # <<>> /\ IsDigit(Head(str)) THEN 1 + DigitRun(Tail(str)) ELSE 0

\* the value of a run of digits
RECURSIVE DigitsValue(_, _)
DigitsValue(digits, acc) ==
    IF digits = <<>> THEN acc
    ELSE DigitsValue(Tail(digits), 10 * acc + (Head(digits) - 48))

\* parseFloat(str): leading white space skipped, then the longest prefix of
\* the form  sign? digits ('.' digits)?  or  sign? '.' digits ; NaN when
\* there is none.  Exponents and "Infinity" are not modelled: no duration
\* of the model holds an 'e', 'E' or 'I'.
ParseFloat(str) ==
    LET t      == TrimStart(str)
        signed == t # <<>> /\ Head(t) \in {CharMinus, CharPlus}
        sign   == IF signed /\ Head(t) = CharMinus THEN -1 ELSE 1
        u      == IF signed THEN Tail(t) ELSE t
        ni     == DigitRun(u)
        v      == SubSeq(u, ni + 1, Len(u))
        dotted == v # <<>> /\ Head(v) = CharDot
        nf     == IF dotted THEN DigitRun(Tail(v)) ELSE 0
    IN  IF ni = 0 /\ nf = 0 THEN NaN
        ELSE NAdd(Num(sign * DigitsValue(SubSeq(u, 1, ni), 0)),
                  Rat(sign * DigitsValue(SubSeq(v, 2, nf + 1), 0), Pow(10, nf)))

\* mutant: line 171 left out, a missing or empty duration is not a number
ParseDurationToSecondsNoDefault(duration) ==
    IF ~duration.some THEN NaN ELSE ParseFloat(ReplaceFirstS(duration.v))

\* duration: an optional string; undefined and "" are falsy (line 171)
ParseDurationToSeconds(duration) ==
    IF ~duration.some \/ duration.v = <<>> THEN Num(0)
    ELSE ParseFloat(ReplaceFirstS(duration.v))

---------------------------------------------------------------------------
(* getRouteMidpointByDuration, coordinates.ts 183-243 *)

\* A step is [staticDuration, encodedPolyline], both optional strings;
\* encodedPolyline stands for step.polyline?.encodedPolyline, absent when
\* either the polyline or its encodedPolyline is.

Null == [kind |-> "null"]

\* mutant: the test written === undefined, "" taken for a polyline
NoEncodedPolylineAbsentOnly(step) == ~step.encodedPolyline.some

\* !step.polyline?.encodedPolyline : absent or "" (lines 212 and 237)
NoEncodedPolyline(step) ==
    ~step.encodedPolyline.some \/ step.encodedPolyline.v = <<>>

StepDurations(steps) ==
    [i \in 1 .. Len(steps) |-> ParseDurationToSeconds(steps[i].staticDuration)]

\* Where a call stands when it returns: the return statement it took (exit),
\* the loop variables i and accumulatedTime and the targetTime at that point,
\* the strings it handed to decodePolyline and the positions it handed to
\* getPositionOnPolyline.
Trace(exit, i, accumulatedTime, targetTime, decoded, positions) ==
    [accumulatedTime |-> accumulatedTime, decoded |-> decoded, exit |-> exit,
     i |-> i, positions |-> positions, targetTime |-> targetTime]

\* of a call that is not one of getRouteMidpointByDuration
NoTrace == Trace("none", 0, Num(0), Num(0), <<>>, <<>>)

\* a call that returned: its outcome and its trace
Done(outcome, where) == [outcome |-> outcome, trace |-> where]

\* mutant: any duration but a positive one gives the start of the step
PositionInStepFromStart(timeIntoStep, stepDuration) ==
    IF NGt(stepDuration, Num(0)) THEN NDiv(timeIntoStep, stepDuration)
    ELSE Num(0)

\* stepDuration > 0 ? timeIntoStep / stepDuration : 0.5   (225-226)
PositionInStep(timeIntoStep, stepDuration) ==
    IF NGt(stepDuration, Num(0)) THEN NDiv(timeIntoStep, stepDuration)
    ELSE Rat(1, 2)

\* mutant: the check of line 212 left out; reading the length of a missing
\* string is a TypeError
ResolveInStepUnchecked(step, stepDuration, targetTime, i, accumulatedTime) ==
    IF ~step.encodedPolyline.some
    THEN Done(Thrown("TypeError"),
              Trace("step", i, accumulatedTime, targetTime, <<>>, <<>>))
    ELSE LET decoded  == <<step.encodedPolyline.v>>
             polyline == DecodePolyline(step.encodedPolyline.v, DefaultPrecision)
             positionInStep ==
                 PositionInStep(NSub(targetTime, accumulatedTime), stepDuration)
         IN  IF Len(polyline) = 0
             THEN Done(Null, Trace("emptyPolyline", i, accumulatedTime,
                                   targetTime, decoded, <<>>))
             ELSE Done(GetPositionOnPolyline(polyline, positionInStep),
                       Trace("step", i, accumulatedTime, targetTime, decoded,
                             <<positionInStep>>))

\* the body of the if of lines 208-230, for step i that satisfied it
ResolveInStep(step, stepDuration, targetTime, i, accumulatedTime) ==
    IF NoEncodedPolyline(step)
    THEN Done(Null, Trace("noPolyline", i, accumulatedTime, targetTime,
                          <<>>, <<>>))
    ELSE LET decoded  == <<step.encodedPolyline.v>>
             polyline == DecodePolyline(step.encodedPolyline.v, DefaultPrecision)
             positionInStep ==
                 PositionInStep(NSub(targetTime, accumulatedTime), stepDuration)
         IN  IF Len(polyline) = 0
             THEN Done(Null, Trace("emptyPolyline", i, accumulatedTime,
                                   targetTime, decoded, <<>>))
             ELSE Done(GetPositionOnPolyline(polyline, positionInStep),
                       Trace("step", i, accumulatedTime, targetTime, decoded,
                             <<positionInStep>>))

\* mutant: the fallback reads the first step
LastStepFallbackFirst(steps, targetTime, i, accumulatedTime) ==
    LET lastStep == steps[1]
    IN  IF ~NoEncodedPolyline(lastStep)
        THEN Done(GetPositionOnPolyline(
                      DecodePolyline(lastStep.encodedPolyline.v, DefaultPrecision),
                      Rat(1, 2)),
                  Trace("fallback", i, accumulatedTime, targetTime,
                        <<lastStep.encodedPolyline.v>>, <<Rat(1, 2)>>))
        ELSE Done(Null, Trace("fallbackNull", i, accumulatedTime, targetTime,
                              <<>>, <<>>))

\* mutant: the check of line 237 left out; a missing string is a TypeError,
\* the empty one decodes to the empty path
LastStepFallbackUnchecked(steps, targetTime, i, accumulatedTime) ==
    LET lastStep == steps[Len(steps)]
    IN  IF ~lastStep.encodedPolyline.some
        THEN Done(Thrown("TypeError"),
                  Trace("fallback", i, accumulatedTime, targetTime, <<>>, <<>>))
        ELSE Done(GetPositionOnPolyline(
                      DecodePolyline(lastStep.encodedPolyline.v, DefaultPrecision),
                      Rat(1, 2)),
                  Trace("fallback", i, accumulatedTime, targetTime,
                        <<lastStep.encodedPolyline.v>>, <<Rat(1, 2)>>))

\* lines 235-242, reached with the loop variables of its end
LastStepFallback(steps, targetTime, i, accumulatedTime) ==
    LET lastStep == steps[Len(steps)]
    IN  IF ~NoEncodedPolyline(lastStep)
        THEN Done(GetPositionOnPolyline(
                      DecodePolyline(lastStep.encodedPolyline.v, DefaultPrecision),
                      Rat(1, 2)),
                  Trace("fallback", i, accumulatedTime, targetTime,
                        <<lastStep.encodedPolyline.v>>, <<Rat(1, 2)>>))
        ELSE Done(Null, Trace("fallbackNull", i, accumulatedTime, targetTime,
                              <<>>, <<>>))

\* mutant: line 232 left out, the accumulated time stays 0
RECURSIVE ScanStepsNoAccumulate(_, _, _, _, _)
ScanStepsNoAccumulate(steps, stepDurations, targetTime, i, accumulatedTime) ==
    IF ~(i < Len(steps))
    THEN LastStepFallback(steps, targetTime, i, accumulatedTime)
    ELSE LET stepDuration == stepDurations[i + 1]
         IN  IF NGe(NAdd(accumulatedTime, stepDuration), targetTime)
             THEN ResolveInStep(steps[i + 1], stepDuration, targetTime, i,
                                accumulatedTime)
             ELSE ScanStepsNoAccumulate(steps, stepDurations, targetTime,
                                        i + 1, accumulatedTime)

\* mutant: the test of line 208 written with >
RECURSIVE ScanStepsStrict(_, _, _, _, _)
ScanStepsStrict(steps, stepDurations, targetTime, i, accumulatedTime) ==
    IF ~(i < Len(steps))
    THEN LastStepFallback(steps, targetTime, i, accumulatedTime)
    ELSE LET stepDuration == stepDurations[i + 1]
         IN  IF NGt(NAdd(accumulatedTime, stepDuration), targetTime)
             THEN ResolveInStep(steps[i + 1], stepDuration, targetTime, i,
                                accumulatedTime)
             ELSE ScanStepsStrict(steps, stepDurations, targetTime, i + 1,
                                  NAdd(accumulatedTime, stepDuration))

\* the scan of lines 205-233, i 0-based as in the code, then the fallback
RECURSIVE ScanSteps(_, _, _, _, _)
ScanSteps(steps, stepDurations, targetTime, i, accumulatedTime) ==
    IF ~(i < Len(steps))
    THEN LastStepFallback(steps, targetTime, i, accumulatedTime)
    ELSE LET stepDuration == stepDurations[i + 1]
         IN  IF NGe(NAdd(accumulatedTime, stepDuration), targetTime)
             THEN ResolveInStep(steps[i + 1], stepDuration, targetTime, i,
                                accumulatedTime)
             ELSE ScanSteps(steps, stepDurations, targetTime, i + 1,
                            NAdd(accumulatedTime, stepDuration))

\* mutant: the guard of lines 186-188 left out
RunGetRouteMidpointByDurationUnguarded(steps) ==
    LET stepDurations == StepDurations(steps)
        totalDuration == Sum(stepDurations)
    IN  IF NEq(totalDuration, Num(0))
        THEN Done(Null, Trace("zeroTotal", 0, Num(0), Num(0), <<>>, <<>>))
        ELSE ScanSteps(steps, stepDurations,
                       NDiv(totalDuration, Num(2)), 0, Num(0))

\* getRouteMidpointByDuration(steps): its outcome and its trace
RunGetRouteMidpointByDuration(steps) ==
    IF Len(steps) = 0
    THEN Done(Null, Trace("empty", 0, Num(0), Num(0), <<>>, <<>>))
    ELSE LET stepDurations == StepDurations(steps)
             totalDuration == Sum(stepDurations)
         IN  IF NEq(totalDuration, Num(0))
             THEN Done(Null, Trace("zeroTotal", 0, Num(0), Num(0), <<>>, <<>>))
             ELSE ScanSteps(steps, stepDurations,
                            NDiv(totalDuration, Num(2)), 0, Num(0))

\* the value getRouteMidpointByDuration(steps) returns
GetRouteMidpointByDuration(steps) == RunGetRouteMidpointByDuration(steps).outcome

---------------------------------------------------------------------------
(* Inputs of getRouteMidpointByDuration *)

\* longest route
MaxSteps == 2

\* "" "0s" "60s" "100s" "1.5s" "60" "abc" "s" "-60s"
DurationStrings ==
    {<<>>, <<48, 115>>, <<54, 48, 115>>, <<49, 48, 48, 115>>,
     <<49, 46, 53, 115>>, <<54, 48>>, <<97, 98, 99>>, <<115>>,
     <<45, 54, 48, 115>>}

Durations == {None} \cup {Some(d) : d \in DurationStrings}

\* the straight line from (0,0) to (0,2) [lng,lat], a three-point line on
\* the equator, a single point, and the empty string
StepPolylines ==
    {None, Some(<<>>),
     Some(EncodePath(<<<<0, 0>>, <<200000, 0>>>>)),
     Some(EncodePath(<<<<0, 100000>>, <<0, 100000>>, <<0, 200000>>>>)),
     Some(EncodePath(<<<<100000, 0>>>>))}

Steps == [encodedPolyline : StepPolylines, staticDuration : Durations]

Routes == SeqsUpTo(Steps, MaxSteps)

\* longest route of plain steps
MaxLongSteps == 3

\* steps of "60s" or "0s" with no polyline, the string "?" (a latitude
\* group with no longitude group), the straight line or the three-point line
PlainSteps ==
    [encodedPolyline :
        {None, Some(<<63>>),
         Some(EncodePath(<<<<0, 0>>, <<200000, 0>>>>)),
         Some(EncodePath(<<<<0, 100000>>, <<0, 100000>>, <<0, 200000>>>>))},
     staticDuration : {Some(<<54, 48, 115>>), Some(<<48, 115>>)}]

LongRoutes == SeqsUpTo(PlainSteps, MaxLongSteps)

---------------------------------------------------------------------------
(* filterPositionsWithinThreshold, coordinates.ts 253-262 *)

\* Math.PI lies strictly between these two
PiLower == Rat(333, 106)

PiUpper == Rat(355, 113)

\* mutant: distance < thresholdMeters
WithinThresholdStrict(distance, thresholdMeters) ==
    CASE IsNaN(distance) \/ IsNaN(thresholdMeters) -> FALSE
      [] distance.n = 0 -> NGt(thresholdMeters, Num(0))
      [] distance.n > 0 /\ NLe(NMul(distance, PiUpper), thresholdMeters) -> TRUE
      [] distance.n > 0 /\ NGe(NMul(distance, PiLower), thresholdMeters) -> FALSE

\* distance <= thresholdMeters (line 260), for a distance kept in metres
\* over pi: distance * pi <= thresholdMeters.  A threshold between
\* distance * PiLower and distance * PiUpper is not decided here (the CASE
\* has no arm for it); the thresholds of the model stay out of that band.
WithinThreshold(distance, thresholdMeters) ==
    CASE IsNaN(distance) \/ IsNaN(thresholdMeters) -> FALSE
      [] distance.n = 0 -> NLe(Num(0), thresholdMeters)
      [] distance.n > 0 /\ NLe(NMul(distance, PiUpper), thresholdMeters) -> TRUE
      [] distance.n > 0 /\ NGe(NMul(distance, PiLower), thresholdMeters) -> FALSE

\* positions.map(...)   (lines 258-261)
FilterPositionsWithinThreshold(centerPoint, positions, thresholdMeters) ==
    [i \in 1 .. Len(positions) |->
        WithinThreshold(HaversineDistance(centerPoint, positions[i]),
                        thresholdMeters)]

\* an array of booleans returned
ReturnedFlags(flags) == [flags |-> flags, kind |-> "value"]

\* a distance returned
ReturnedDistance(distance) == [distance |-> distance, kind |-> "value"]

---------------------------------------------------------------------------
(* Inputs of haversineDistance and filterPositionsWithinThreshold *)

\* most positions handed to filterPositionsWithinThreshold
MaxPositions == 2

\* pairs of points on the meridian of Greenwich, poles included, and pairs of
\* points on the equator, some of them more than half a turn apart
Latitudes == {-90, -1, 0, 1, 3, 90}

Longitudes == {-170, -1, 0, 1, 3, 170}

CoordinatePairs ==
    {<<<<Num(0), Num(a)>>, <<Num(0), Num(b)>>>> : a, b \in Latitudes}
        \cup {<<<<Num(a), Num(0)>>, <<Num(b), Num(0)>>>> : a, b \in Longitudes}

\* a center and positions, all on the meridian or all on the equator
Neighbourhoods ==
    {<<c, ps>> : c \in MeridianPoints, ps \in SeqsUpTo(MeridianPoints, MaxPositions)}
        \cup {<<c, ps>> : c \in EquatorPoints, ps \in SeqsUpTo(EquatorPoints, MaxPositions)}

\* metres; one degree of a great circle is about 111195 m, two 222390 m and
\* three 333585 m
Thresholds ==
    {Num(-1), Num(0), Num(1), Num(111000), Num(112000), Num(250000),
     Num(400000), NaN}

---------------------------------------------------------------------------
(* decodePolyline one loop step at a time, coordinates.ts 20-65 *)

\* the local variables of a run, and the statement it stands at: "while"
\* (the test of line 31), "latitude" and "longitude" (the two do-while loops),
\* "done" (line 64)
Decoder(pc, encoded, precision, index, lat, lng, shift, res, coordinates) ==
    [coordinates |-> coordinates, encoded |-> encoded, index |-> index,
     lat |-> lat, lng |-> lng, pc |-> pc, precision |-> precision,
     res |-> res, shift |-> shift]

DecoderIdle == Decoder("idle", <<>>, DefaultPrecision, 0, 0, 0, 0, 0, <<>>)

\* lines 24-29: the run starts on a string
DecodeStart ==
    /\ decoder.pc = "idle"
    /\ \E encoded \in RawStrings \cup {Canonical}, precision \in Precisions :
          decoder' = Decoder("while", encoded, precision, 0, 0, 0, 0, 0, <<>>)
    /\ UNCHANGED <<callerVars, debounce, route, search, pubs>>

\* line 31: while (index < encoded.length), then lines 32-34
DecodeWhile ==
    /\ decoder.pc = "while"
    /\ decoder' =
          IF decoder.index < Len(decoder.encoded)
          THEN [decoder EXCEPT !.pc = "latitude", !.shift = 0, !.res = 0]
          ELSE [decoder EXCEPT !.pc = "done"]
    /\ UNCHANGED <<callerVars, debounce, route, search, pubs>>

\* one pass of the do-while of lines 37-41, and lines 43-44 when it ends
DecodeLatitudeStep ==
    /\ decoder.pc = "latitude"
    /\ LET byte == ByteAt(decoder.encoded, decoder.index)
           res  == BitOr(decoder.res, Shl(Chunk(byte), decoder.shift))
       IN  decoder' =
              IF Continues(byte)
              THEN [decoder EXCEPT !.index = @ + 1, !.res = res,
                                   !.shift = @ + 5]
              ELSE [decoder EXCEPT !.index = @ + 1, !.res = 0, !.shift = 0,
                                   !.lat = @ + Unzigzag(res),
                                   !.pc = "longitude"]
    /\ UNCHANGED <<callerVars, debounce, route, search, pubs>>

\* one pass of the do-while of lines 50-54, and lines 56-61 when it ends
DecodeLongitudeStep ==
    /\ decoder.pc = "longitude"
    /\ LET byte == ByteAt(decoder.encoded, decoder.index)
           res  == BitOr(decoder.res, Shl(Chunk(byte), decoder.shift))
           lng  == decoder.lng + Unzigzag(res)
       IN  decoder' =
              IF Continues(byte)
              THEN [decoder EXCEPT !.index = @ + 1, !.res = res,
                                   !.shift = @ + 5]
              ELSE [decoder EXCEPT
                       !.index = @ + 1, !.res = 0, !.shift = 0, !.lng = lng,
                       !.coordinates =
                           Append(@, Pushed(decoder.lat, lng,
                                            Pow(10, decoder.precision))),
                       !.pc = "while"]
    /\ UNCHANGED <<callerVars, debounce, route, search, pubs>>

\* line 64: the coordinates are returned and the run is over
DecodeReturn ==
    /\ decoder.pc = "done"
    /\ decoder' = DecoderIdle
    /\ UNCHANGED <<callerVars, debounce, route, search, pubs>>

\* a step of a run that has started
DecodeStep ==
    \/ DecodeWhile
    \/ DecodeLatitudeStep
    \/ DecodeLongitudeStep
    \/ DecodeReturn

DecodeNext ==
    \/ DecodeStart
    \/ DecodeWhile
    \/ DecodeLatitudeStep
    \/ DecodeLongitudeStep
    \/ DecodeReturn

---------------------------------------------------------------------------
(* useDebounce, hooks/useDebounce.ts 25-39 *)

\* longest delay, in ticks of the clock
MaxDelayTicks == 2

\* what the component passes as value
DebounceValues == {"", "a", "ab"}

DebounceDelays == 0 .. MaxDelayTicks

\* a timer set by setTimeout: the value its callback closes over and the
\* ticks left before it is due
Timer(value, left) == [left |-> left, value |-> value]

\* The hook in a mounted component: the arguments of the last render,
\* the state debouncedValue, the timers that are set, the timer of the last
\* effect (the one its cleanup clears), and for how many ticks, up to
\* MaxDelayTicks, value has been what it is.
Debounce(mounted, value, delay, debouncedValue, timers, timer, held) ==
    [debouncedValue |-> debouncedValue, delay |-> delay, held |-> held,
     mounted |-> mounted, timer |-> timer, timers |-> timers,
     value |-> value]

DebounceIdle == Debounce(FALSE, "", 0, "", {}, Timer("", 0), 0)

\* first render: useState(value) (line 26) and the effect (lines 28-31)
DebounceMount ==
    /\ ~debounce.mounted
    /\ \E value \in DebounceValues, delay \in DebounceDelays :
          debounce' = Debounce(TRUE, value, delay, value,
                               {Timer(value, delay)}, Timer(value, delay), 0)
    /\ UNCHANGED <<callerVars, decoder, route, search, pubs>>

\* mutant: the effect returns no cleanup, the timer before stays set
DebounceRenderNoCleanup ==
    /\ debounce.mounted
    /\ \E value \in DebounceValues, delay \in DebounceDelays :
          /\ <<value, delay>> # <<debounce.value, debounce.delay>>
          /\ debounce' =
                [debounce EXCEPT
                    !.value = value, !.delay = delay,
                    !.timers = @ \cup {Timer(value, delay)},
                    !.timer = Timer(value, delay),
                    !.held = IF value = debounce.value THEN @ ELSE 0]
    /\ UNCHANGED <<callerVars, decoder, route, search, pubs>>

\* a render with another value or delay: the dependencies of line 36
\* differ, so the cleanup of the effect before runs (clearTimeout, line 34)
\* and the effect runs again (setTimeout, lines 29-31)
DebounceRender ==
    /\ debounce.mounted
    /\ \E value \in DebounceValues, delay \in DebounceDelays :
          /\ <<value, delay>> # <<debounce.value, debounce.delay>>
          /\ debounce' =
                [debounce EXCEPT
                    !.value = value, !.delay = delay,
                    !.timers = (@ \ {debounce.timer})
                                  \cup {Timer(value, delay)},
                    !.timer = Timer(value, delay),
                    !.held = IF value = debounce.value THEN @ ELSE 0]
    /\ UNCHANGED <<callerVars, decoder, route, search, pubs>>

\* the clock advances by one tick
DebounceTick ==
    /\ debounce.mounted
    /\ debounce' =
          [debounce EXCEPT
              !.timers = {Timer(t.value, IF t.left > 0 THEN t.left - 1 ELSE 0) :
                             t \in @},
              !.timer = Timer(@.value, IF @.left > 0 THEN @.left - 1 ELSE 0),
              !.held = IF @ < MaxDelayTicks THEN @ + 1 ELSE @]
    /\ UNCHANGED <<callerVars, decoder, route, search, pubs>>

\* a timer that is due runs its callback: setDebouncedValue(value), line 30;
\* the render that follows has the same value and delay, so no effect runs
DebounceFire ==
    /\ debounce.mounted
    /\ \E t \in debounce.timers :
          /\ t.left = 0
          /\ debounce' = [debounce EXCEPT !.timers = @ \ {t},
                                          !.debouncedValue = t.value]
    /\ UNCHANGED <<callerVars, decoder, route, search, pubs>>

\* the component unmounts: the cleanup of the last effect runs (line 34)
DebounceUnmount ==
    /\ debounce.mounted
    /\ debounce' = DebounceIdle
    /\ UNCHANGED <<callerVars, decoder, route, search, pubs>>

DebounceNext ==
    \/ DebounceMount
    \/ DebounceRender
    \/ DebounceTick
    \/ DebounceFire
    \/ DebounceUnmount

---------------------------------------------------------------------------
(* POST /api/routes, unnamed/part_000 12-147 *)

\* process.env.NEXT_PRIVATE_GOOGLE_MAPS_API_KEY: undefined, "" or a key
ApiKeys == {"undefined", "empty", "key"}

\* a property of the parsed body as the validation sees it
FieldValues == {"undefined", "null", "number"}

RequiredFields ==
    {"originLat", "originLng", "destinationLat", "destinationLng"}

\* The request body: text that is not JSON, the JSON value null, a JSON
\* number, or a JSON object with its four coordinates.
Body(kind, originLat, originLng, destinationLat, destinationLng) ==
    [destinationLat |-> destinationLat, destinationLng |-> destinationLng,
     kind |-> kind, originLat |-> originLat, originLng |-> originLng]

NoFields(kind) == Body(kind, "undefined", "undefined", "undefined", "undefined")

Bodies ==
    {NoFields("invalid"), NoFields("null"), NoFields("number")}
        \cup {Body("object", a, b, c, d) :
                  a \in FieldValues, b \in FieldValues,
                  c \in FieldValues, d \in FieldValues}

\* what fetch gives: it rejects, or a response with a status whose body
\* is or is not JSON
UpstreamStatuses == {200, 204, 304, 400, 403, 500}

NoUpstream == [json |-> FALSE, kind |-> "none", status |-> 0]

UpstreamRejects == [json |-> FALSE, kind |-> "rejects", status |-> 0]

UpstreamResponse(status, json) ==
    [json |-> json, kind |-> "response", status |-> status]

Upstreams ==
    {UpstreamRejects}
        \cup {UpstreamResponse(status, json) :
                  status \in UpstreamStatuses, json \in BOOLEAN}

\* response.ok
Ok(status) == 200 <= status /\ status <= 299

\* statuses with which Response takes no body: the constructor throws
NullBodyStatuses == {101, 103, 204, 205, 304}

\* NextResponse.json(body, {status})
Answer(success, status, payload) ==
    [payload |-> payload, sent |-> TRUE, status |-> status,
     success |-> success]

NoAnswer == [payload |-> "", sent |-> FALSE, status |-> 0, success |-> FALSE]

\* the catch block, lines 137-147
Caught(message) == Answer(FALSE, 500, message)

Route(pc, apiKey, body, calls, upstream, answer) ==
    [answer |-> answer, apiKey |-> apiKey, body |-> body, calls |-> calls,
     pc |-> pc, upstream |-> upstream]

RouteIdle == Route("idle", "undefined", NoFields("invalid"), 0, NoUpstream, NoAnswer)

Answered(answer) == [route EXCEPT !.pc = "answered", !.answer = answer]

\* a request arrives
RouteReceive ==
    /\ route.pc = "idle"
    /\ \E apiKey \in ApiKeys, body \in Bodies :
          route' = Route("key", apiKey, body, 0, NoUpstream, NoAnswer)
    /\ UNCHANGED <<callerVars, decoder, debounce, search, pubs>>

\* lines 16-23
RouteCheckKey ==
    /\ route.pc = "key"
    /\ route' = IF route.apiKey # "key"
                   THEN Answered(Answer(FALSE, 500,
                            "Google Maps API key is not configured"))
                   ELSE [route EXCEPT !.pc = "json"]
    /\ UNCHANGED <<callerVars, decoder, debounce, search, pubs>>

\* line 25: await request.json(), which rejects on text that is not JSON
RouteParseBody ==
    /\ route.pc = "json"
    /\ route' = IF route.body.kind = "invalid"
                   THEN Answered(Caught("Unexpected end of JSON input"))
                   ELSE [route EXCEPT !.pc = "validate"]
    /\ UNCHANGED <<callerVars, decoder, debounce, search, pubs>>

\* lines 28-42: reading a property of null throws; the four tests
RouteValidate ==
    /\ route.pc = "validate"
    /\ route' =
          IF route.body.kind = "null"
            THEN Answered(Caught("Cannot read properties of null"))
          ELSE IF \/ route.body.originLat = "undefined"
                  \/ route.body.originLng = "undefined"
                  \/ route.body.destinationLat = "undefined"
                  \/ route.body.destinationLng = "undefined"
            THEN Answered(Answer(FALSE, 400, "Missing required parameters"))
          ELSE [route EXCEPT !.pc = "fetch"]
    /\ UNCHANGED <<callerVars, decoder, debounce, search, pubs>>

\* lines 109-117: the call of the directions API
RouteFetch ==
    /\ route.pc = "fetch"
    /\ \E upstream \in Upstreams :
          route' =
            IF upstream.kind = "rejects"
              THEN [Answered(Caught("fetch failed")) EXCEPT
                       !.calls = @ + 1, !.upstream = upstream]
              ELSE [route EXCEPT !.pc = "upstream", !.calls = @ + 1,
                                 !.upstream = upstream]
    /\ UNCHANGED <<callerVars, decoder, debounce, search, pubs>>

\* lines 119-135: the error answer with the upstream status, or the data
RouteAnswerUpstream ==
    /\ route.pc = "upstream"
    /\ route' =
          IF ~Ok(route.upstream.status)
            THEN IF route.upstream.status \in NullBodyStatuses
                   THEN Answered(Caught("Invalid response status code"))
                   ELSE Answered(Answer(FALSE, route.upstream.status,
                                        "Google Routes API error"))
          ELSE IF ~route.upstream.json
            THEN Answered(Caught("Unexpected end of JSON input"))
          ELSE Answered(Answer(TRUE, 200, "data"))
    /\ UNCHANGED <<callerVars, decoder, debounce, search, pubs>>

\* the answer is sent
RouteReturn ==
    /\ route.pc = "answered"
    /\ route' = RouteIdle
    /\ UNCHANGED <<callerVars, decoder, debounce, search, pubs>>

RouteStep ==
    \/ RouteCheckKey
    \/ RouteParseBody
    \/ RouteValidate
    \/ RouteFetch
    \/ RouteAnswerUpstream
    \/ RouteReturn

RouteNext ==
    \/ RouteReceive
    \/ RouteCheckKey
    \/ RouteParseBody
    \/ RouteValidate
    \/ RouteFetch
    \/ RouteAnswerUpstream
    \/ RouteReturn

---------------------------------------------------------------------------
(* MapSearch, components/ui/organisms/MapSearchInput.tsx 39-88 *)

\* suggest requests one component issues
MaxRequests == 3

\* String.prototype.trim: white space removed at both ends
RECURSIVE TrimEnd(_)
TrimEnd(q) ==
    IF q # <<>> /\ IsSpace(q[Len(q)])
      THEN TrimEnd(SubSeq(q, 1, Len(q) - 1))
      ELSE q

Trim(q) == TrimEnd(TrimStart(q))

\* the values of debouncedQuery: "", " ", "a", "ab", "a "
Queries == {<<>>, <<32>>, <<97>>, <<97, 98>>, <<97, 32>>}

\* what a suggest request ends in: suggestions, a body without
\* suggestions, or a failure of fetch or of res.json()
Completions == {"suggestions", "none", "fails"}

\* setResults: the list shown and the query whose effect set it; the list
\* is empty or the suggestions that the request for that query received
Results(query, listed) == [listed |-> listed, query |-> query]

SuggestRequest(id, query) == [id |-> id, query |-> query]

\* The component: debouncedQuery, the requests sent and not completed, the
\* state results, the number of requests sent so far, and what the effect
\* of the current debouncedQuery has come to: "blank", "pending", or the
\* completion of its request.
Search(debouncedQuery, inFlight, results, issued, latest) ==
    [debouncedQuery |-> debouncedQuery, inFlight |-> inFlight,
     issued |-> issued, latest |-> latest, results |-> results]

\* after the first render and its effects: useState("") (line 27),
\* useState([]) (lines 29-31), the effect's setResults([]) (line 53)
SearchMounted == Search(<<>>, {}, Results(<<>>, FALSE), 0, "blank")

\* debouncedQuery changes and the effect of lines 51-88 runs: on a blank
\* query the results are emptied, otherwise a request is sent
SearchDebounced ==
    \E query \in Queries :
        /\ query # search.debouncedQuery
        /\ IF Trim(query) = <<>>
             THEN search' = [search EXCEPT
                                !.debouncedQuery = query,
                                !.latest = "blank",
                                !.results = Results(query, FALSE)]
             ELSE /\ search.issued < MaxRequests
                  /\ search' = [search EXCEPT
                                    !.debouncedQuery = query,
                                    !.latest = "pending",
                                    !.issued = @ + 1,
                                    !.inFlight = @ \cup
                                        {SuggestRequest(search.issued + 1,
                                                        query)}]
        /\ UNCHANGED <<callerVars, decoder, debounce, route, pubs>>

\* a request completes: lines 70-78, or the catch of lines 79-81
SearchCompleted ==
    \E request \in search.inFlight, completion \in Completions :
        /\ search' = [search EXCEPT
                          !.inFlight = @ \ {request},
                          !.latest = IF @ = "pending"
                                          /\ request.id = search.issued
                                       THEN completion ELSE @,
                          !.results = Results(request.query,
                                              completion = "suggestions")]
        /\ UNCHANGED <<callerVars, decoder, debounce, route, pubs>>

SearchNext ==
    \/ SearchDebounced
    \/ SearchCompleted

---------------------------------------------------------------------------
(* fetchAllPubs, unnamed/part_006 76-224 *)

\* LONDON_GIS_API.MAX_RECORDS, the page size asked for: 2000 in
\* lib/constants.ts, scaled down here; the function only compares a page's
\* length with it and adds it to the offset
MAX_RECORDS == 2

\* requests of one run
MaxPages == 3

\* a feature of a reply: its id (0 when it has none), the objectid of its
\* properties (0 when it has none), and whether it has a geometry
Feature(id, objectid, geometry) ==
    [geometry |-> geometry, id |-> id, objectid |-> objectid]

\* transformResponse, lines 112-157, on what the model keeps of a feature:
\* `objectid || 0` and `feature.id || pub.objectid`
TransformFeature(feature) ==
    Feature(IF feature.id # 0 THEN feature.id ELSE feature.objectid,
            feature.objectid, TRUE)

TransformResponse(features) ==
    [k \in 1 .. Len(features) |-> TransformFeature(features[k])]

\* line 115 destructures feature.geometry.coordinates: a TypeError when a
\* feature has no geometry
TransformThrows(features) ==
    \E k \in 1 .. Len(features) : ~features[k].geometry

\* the page a server sends for an offset: n features in its own order,
\* with ids or without, with geometries or without
Page(offset, n, withId, geometry) ==
    [k \in 1 .. n |->
        Feature(IF withId THEN 100 + offset + k ELSE 0, offset + k, geometry)]

\* an error: its name and its statusCode (0 when it has none)
Error(name, statusCode) == [name |-> name, statusCode |-> statusCode]

NoError == Error("", 0)

LondonGISError(statusCode) == Error("LondonGISError", statusCode)

\* What a request comes to: fetch rejects (aborted by the timeout, or a
\* network failure), or there is a response with a status, whose body
\* is JSON or not, with a features array or without.
Reply(fetched, status, json, hasFeatures, features) ==
    [features |-> features, fetched |-> fetched,
     hasFeatures |-> hasFeatures, json |-> json, status |-> status]

NoReply == Reply("none", 0, FALSE, FALSE, <<>>)

\* the replies to a request; a page of MAX_RECORDS features or more only
\* when `full` allows it
Replies(offset, full) ==
    {Reply("AbortError", 0, FALSE, FALSE, <<>>),
     Reply("TypeError", 0, FALSE, FALSE, <<>>),
     Reply("response", 500, TRUE, FALSE, <<>>),
     Reply("response", 200, FALSE, FALSE, <<>>),
     Reply("response", 200, TRUE, FALSE, <<>>)}
        \cup {Reply("response", 200, TRUE, TRUE,
                    Page(offset, n, withId, geometry)) :
                  n \in 0 .. (IF full THEN MAX_RECORDS + 1
                                      ELSE MAX_RECORDS - 1),
                  withId \in BOOLEAN, geometry \in BOOLEAN}

\* fetchWithTimeout and response.json(), lines 76-107 and 182-183: the
\* error thrown, NoError when data is there
RequestError(reply) ==
    IF reply.fetched = "AbortError" THEN LondonGISError(408)
    ELSE IF reply.fetched = "TypeError" THEN Error("TypeError", 0)
    ELSE IF ~(200 <= reply.status /\ reply.status <= 299)
      THEN LondonGISError(reply.status)
    ELSE IF ~reply.json THEN Error("SyntaxError", 0)
    ELSE NoError

\* the catch block, lines 214-223
Rethrown(error) ==
    IF error.name = "LondonGISError" THEN error ELSE LondonGISError(0)

\* mutant: only an empty page ends the loop
HasMoreUnlessEmpty(length) == length > 0

\* lines 194-198: another page is asked for
HasMore(length) == ~(length < MAX_RECORDS)

\* the outcome of a run: nothing yet, the collection returned, or the error
\* thrown
PubsOutcome(kind, features, error) ==
    [error |-> error, features |-> features, kind |-> kind]

\* A run: where it stands, offset, allFeatures, the data of the last
\* reply, its outcome, and the offsets asked for and the feature arrays
\* received so far.
Pubs(pc, offset, allFeatures, data, outcome, offsets, pages) ==
    [allFeatures |-> allFeatures, data |-> data, offset |-> offset,
     offsets |-> offsets, outcome |-> outcome, pages |-> pages, pc |-> pc]

PubsIdle ==
    Pubs("idle", 0, <<>>, NoReply, PubsOutcome("none", <<>>, NoError),
         <<>>, <<>>)

PubsThrown(error) ==
    [pubs EXCEPT !.pc = "settled",
                 !.outcome = PubsOutcome("throw", <<>>, Rethrown(error))]

\* lines 168-170
PubsStart ==
    /\ pubs.pc = "idle"
    /\ pubs' = [PubsIdle EXCEPT !.pc = "while"]
    /\ UNCHANGED <<callerVars, decoder, debounce, route, search>>

\* lines 173-183: one request at the current offset, awaited
PubsRequest ==
    /\ pubs.pc = "while"
    /\ \E reply \in Replies(pubs.offset, Len(pubs.offsets) + 1 < MaxPages) :
          pubs' =
            IF RequestError(reply) # NoError
              THEN [PubsThrown(RequestError(reply)) EXCEPT
                       !.offsets = Append(@, pubs.offset),
                       !.data = reply]
              ELSE [pubs EXCEPT !.pc = "data",
                                !.offsets = Append(@, pubs.offset),
                                !.pages = Append(@, reply.features),
                                !.data = reply]
    /\ UNCHANGED <<callerVars, decoder, debounce, route, search>>

\* lines 185-213: the page is examined, transformed and pushed; the loop
\* goes on or the collection is returned
PubsData ==
    /\ pubs.pc = "data"
    /\ pubs' =
          IF ~pubs.data.hasFeatures \/ Len(pubs.data.features) = 0
            THEN [pubs EXCEPT
                     !.pc = "settled",
                     !.outcome = PubsOutcome("value", pubs.allFeatures,
                                             NoError)]
          ELSE IF TransformThrows(pubs.data.features)
            THEN PubsThrown(Error("TypeError", 0))
          ELSE IF HasMore(Len(pubs.data.features))
            THEN [pubs EXCEPT
                     !.pc = "while",
                     !.allFeatures =
                         @ \o TransformResponse(pubs.data.features),
                     !.offset = @ + MAX_RECORDS]
          ELSE [pubs EXCEPT
                   !.pc = "settled",
                   !.allFeatures =
                       @ \o TransformResponse(pubs.data.features),
                   !.outcome =
                       PubsOutcome("value",
                           pubs.allFeatures
                               \o TransformResponse(pubs.data.features),
                           NoError)]
    /\ UNCHANGED <<callerVars, decoder, debounce, route, search>>

\* the promise is settled
PubsReturn ==
    /\ pubs.pc = "settled"
    /\ pubs' = PubsIdle
    /\ UNCHANGED <<callerVars, decoder, debounce, route, search>>

PubsStep ==
    \/ PubsRequest
    \/ PubsData
    \/ PubsReturn

PubsNext ==
    \/ PubsStart
    \/ PubsRequest
    \/ PubsData
    \/ PubsReturn

---------------------------------------------------------------------------
(* The caller *)

Idle == [fn |-> "idle"]

NoResult == [kind |-> "none"]

Init ==
    /\ call = Idle
    /\ result = NoResult
    /\ trace = NoTrace
    /\ decoder = DecoderIdle
    /\ debounce = DebounceIdle
    /\ route = RouteIdle
    /\ search = SearchMounted
    /\ pubs = PubsIdle

\* decodePolyline(encoded, precision) on an arbitrary string
CallDecodePolyline ==
    /\ call = Idle
    /\ \E encoded \in RawStrings \cup {Canonical}, precision \in Precisions :
        /\ call' = [deltas |-> <<>>, encoded |-> encoded,
                    fn |-> "decodePolyline", precision |-> precision,
                    wellEncoded |-> FALSE]
        /\ result' = ReturnedCoordinates(DecodePolyline(encoded, precision))
    /\ trace' = NoTrace
    /\ UNCHANGED machineVars

\* decodePolyline(encoded, precision) on the encoding of a sequence of delta
\* pairs, which the call remembers
CallDecodeEncoded ==
    /\ call = Idle
    /\ \E deltas \in DeltaPaths, precision \in Precisions :
        /\ call' = [deltas |-> deltas, encoded |-> EncodePath(deltas),
                    fn |-> "decodePolyline", precision |-> precision,
                    wellEncoded |-> TRUE]
        /\ result' =
              ReturnedCoordinates(DecodePolyline(EncodePath(deltas), precision))
    /\ trace' = NoTrace
    /\ UNCHANGED machineVars

\* mutant: the walk takes the coordinates off the front of the caller's
\* array, which is left without its first element
CallGetPositionOnPolylineConsuming ==
    /\ call = Idle
    /\ \E polyline \in Paths, position \in Positions :
        /\ call' = [fn |-> "getPositionOnPolyline",
                    polyline |-> IF polyline = <<>> THEN polyline
                                 ELSE Tail(polyline),
                    position |-> position]
        /\ result' = GetPositionOnPolyline(polyline, position)
    /\ trace' = NoTrace
    /\ UNCHANGED machineVars

\* getPositionOnPolyline(polyline, position); the call record holds the
\* arguments as the call leaves them
CallGetPositionOnPolyline ==
    /\ call = Idle
    /\ \E polyline \in Paths, position \in Positions :
        /\ call' = [fn |-> "getPositionOnPolyline", polyline |-> polyline,
                    position |-> position]
        /\ result' = GetPositionOnPolyline(polyline, position)
    /\ trace' = NoTrace
    /\ UNCHANGED machineVars

\* getRouteMidpointByDuration(steps)
CallGetRouteMidpointByDuration ==
    /\ call = Idle
    /\ \E steps \in Routes \cup LongRoutes :
        \E done \in {RunGetRouteMidpointByDuration(steps)} :
            /\ call' = [fn |-> "getRouteMidpointByDuration", steps |-> steps]
            /\ result' = done.outcome
            /\ trace' = done.trace
    /\ UNCHANGED machineVars

\* haversineDistance(coord1, coord2)
CallHaversineDistance ==
    /\ call = Idle
    /\ \E pair \in CoordinatePairs :
        /\ call' = [coord1 |-> pair[1], coord2 |-> pair[2],
                    fn |-> "haversineDistance"]
        /\ result' = ReturnedDistance(HaversineDistance(pair[1], pair[2]))
    /\ trace' = NoTrace
    /\ UNCHANGED machineVars

\* filterPositionsWithinThreshold(centerPoint, positions, thresholdMeters)
CallFilterPositionsWithinThreshold ==
    /\ call = Idle
    /\ \E nb \in Neighbourhoods, thresholdMeters \in Thresholds :
        /\ call' = [centerPoint |-> nb[1],
                    fn |-> "filterPositionsWithinThreshold",
                    positions |-> nb[2], thresholdMeters |-> thresholdMeters]
        /\ result' = ReturnedFlags(
              FilterPositionsWithinThreshold(nb[1], nb[2], thresholdMeters))
    /\ trace' = NoTrace
    /\ UNCHANGED machineVars

\* the caller drops the outcome
Return ==
    /\ call # Idle
    /\ call' = Idle
    /\ result' = NoResult
    /\ trace' = NoTrace
    /\ UNCHANGED machineVars

Next ==
    \/ CallDecodePolyline
    \/ CallDecodeEncoded
    \/ CallGetPositionOnPolyline
    \/ CallGetRouteMidpointByDuration
    \/ CallHaversineDistance
    \/ CallFilterPositionsWithinThreshold
    \/ Return

Spec == Init /\ [][Next]_vars

\* the statements of a run are executed one after the other: a run that can
\* take a step takes it
DecodeSpec == Init /\ [][DecodeNext]_vars /\ WF_vars(DecodeStep)

\* time passes, and a timer that is due runs
DebounceSpec ==
    Init /\ [][DebounceNext]_vars
         /\ WF_vars(DebounceTick) /\ WF_vars(DebounceFire)

\* the handler runs on: each await settles
RouteSpec == Init /\ [][RouteNext]_vars /\ WF_vars(RouteStep)

SearchSpec == Init /\ [][SearchNext]_vars

\* the run goes on: each await settles
PubsSpec == Init /\ [][PubsNext]_vars /\ WF_vars(PubsStep)

---------------------------------------------------------------------------
(* Properties *)

IsDecode == call.fn = "decodePolyline"

IsPosition == call.fn = "getPositionOnPolyline"

IsMidpoint == call.fn = "getRouteMidpointByDuration"

\* the scale factor of the call made
Factor == Pow(10, call.precision)

\* The shape of an encoded string, read off its code units alone: a group
\* ends at a unit without the continuation bit.
InRange(str) == \A i \in 1 .. Len(str) : str[i] >= 63 /\ str[i] <= 126

EndsMidGroup(str) == str # <<>> /\ str[Len(str)] - 63 >= 32

NumGroups(str) == Cardinality({i \in 1 .. Len(str) : str[i] - 63 < 32})

WellFormed(str) ==
    InRange(str) /\ ~EndsMidGroup(str) /\ NumGroups(str) % 2 = 0

LatitudeWithoutLongitude(str) == NumGroups(str) % 2 = 1

Malformed(str) ==
    InRange(str) /\ (EndsMidGroup(str) \/ LatitudeWithoutLongitude(str))

\* C1: decodePolyline fails with a decoding error on malformed input (the
\* string ends inside a group, or a latitude group has no longitude group
\* after it) instead of reading past the end or returning coordinates.
C1_MalformedInputFails ==
    (IsDecode /\ Malformed(call.encoded)) => result.kind = "throw"

\* the duration format of the routing API: digits, an optional fraction, "s"
MatchesDurationFormat(str) ==
    LET ni   == DigitRun(str)
        rest == SubSeq(str, ni + 1, Len(str))
    IN  /\ ni > 0
        /\ \/ rest = <<CharS>>
           \/ /\ Len(rest) >= 3
              /\ rest[1] = CharDot
              /\ rest[Len(rest)] = CharS
              /\ DigitRun(Tail(rest)) = Len(rest) - 2

Unparseable(duration) == ~duration.some \/ ~MatchesDurationFormat(duration.v)

\* "0s"
ZeroSeconds == Some(<<48, 115>>)

\* the route with "0s" in place of every absent or unparseable duration
WithZeroSeconds(steps) ==
    [i \in 1 .. Len(steps) |->
        IF Unparseable(steps[i].staticDuration)
        THEN [steps[i] EXCEPT !.staticDuration = ZeroSeconds]
        ELSE steps[i]]

\* C2: in getRouteMidpointByDuration a step whose duration is absent or
\* unparseable counts for exactly 0 seconds, and the call gives what it
\* gives with "0s" in its place.
C2_UnparseableDurationIsZero ==
    IsMidpoint => result = GetRouteMidpointByDuration(WithZeroSeconds(call.steps))

\* C3: for a well-formed string decodePolyline returns one coordinate per
\* pair of groups, each coordinate being the one before it moved by its own
\* delta pair (input order); the empty string gives the empty sequence.
C3_OneCoordinatePerPair ==
    IsDecode =>
        /\ WellFormed(call.encoded) =>
              /\ result.kind = "value"
              /\ 2 * Len(result.coordinates) = NumGroups(call.encoded)
        /\ call.encoded = <<>> => result.coordinates = <<>>
        /\ call.wellEncoded =>
              /\ WellFormed(call.encoded)
              /\ Len(result.coordinates) = Len(call.deltas)
              /\ \A k \in 1 .. Len(call.deltas) :
                    LET before == IF k = 1 THEN <<Num(0), Num(0)>>
                                  ELSE result.coordinates[k - 1]
                    IN  /\ NSub(result.coordinates[k][2], before[2])
                              = Rat(call.deltas[k][1], Factor)
                        /\ NSub(result.coordinates[k][1], before[1])
                              = Rat(call.deltas[k][2], Factor)

C3_Witness ==
    /\ IsDecode
    /\ ~call.wellEncoded
    /\ WellFormed(call.encoded)
    /\ Len(call.encoded) = 3
    /\ Len(result.coordinates) = 1

\* the chunks of a group read as a number, least significant chunk first
RECURSIVE ChunkSum(_)
ChunkSum(group) ==
    IF group = <<>> THEN 0
    ELSE ((Head(group) - 63) % 32) + 32 * ChunkSum(Tail(group))

\* C4: a group's 5-bit chunks, least significant first, are put together
\* to the unsigned value v, and v is un-zigzagged to ~(v >> 1) when odd and
\* v >> 1 when even: the encoding of a delta d decodes to d.
C4_GroupDecodesToDelta ==
    (IsDecode /\ call.wellEncoded) =>
        /\ \A k \in 1 .. Len(call.deltas), c \in 1 .. 2 :
              LET d     == call.deltas[k][c]
                  group == EncodeValue(d)
                  g     == DecodeGroup(group, 0, 0, 0)
                  v     == g.result
              IN  /\ g.index = Len(group)
                  /\ v = ChunkSum(group)
                  /\ v = ZigZag(d)
                  /\ Unzigzag(v) = (IF v % 2 = 1 THEN -(v \div 2) - 1 ELSE v \div 2)
                  /\ Unzigzag(v) = d
        /\ Len(call.deltas) >= 1 =>
              result.coordinates[1] = <<Rat(call.deltas[1][2], Factor),
                                  Rat(call.deltas[1][1], Factor)>>

C4_Witness ==
    /\ IsDecode
    /\ call.wellEncoded
    /\ call.precision = 5
    /\ call.deltas = <<<<-MaxDelta, MaxDelta>>>>
    /\ Len(call.encoded) = 4
    /\ result.coordinates = <<<<Rat(MaxDelta, 100000), Rat(-MaxDelta, 100000)>>>>

\* the sum of component c of the first k delta pairs
RECURSIVE PrefixSum(_, _, _)
PrefixSum(deltas, k, c) ==
    IF k = 0 THEN 0 ELSE deltas[k][c] + PrefixSum(deltas, k - 1, c)

\* C5: the k-th coordinate is (sum of the first k longitude deltas, sum of
\* the first k latitude deltas) over 10^precision, longitude first.
C5_RunningTotals ==
    (IsDecode /\ call.wellEncoded) =>
        /\ Len(result.coordinates) = Len(call.deltas)
        /\ \A k \in 1 .. Len(call.deltas) :
              result.coordinates[k] = <<Rat(PrefixSum(call.deltas, k, 2), Factor),
                                  Rat(PrefixSum(call.deltas, k, 1), Factor)>>

C5_Witness ==
    /\ IsDecode
    /\ call.wellEncoded
    /\ call.precision = 6
    /\ call.deltas = <<<<1, -512>>, <<100000, 1>>>>
    /\ result.coordinates[2] = <<Rat(-511, 1000000), Rat(100001, 1000000)>>

\* C6: the canonical string at precision 5 decodes to (lng,lat) =
\* (-120.2, 38.5), (-120.95, 40.7), (-126.453, 43.252), whose scaled values
\* are (-12020000, 3850000), (-12095000, 4070000), (-12645300, 4325200).
C6_CanonicalExample ==
    (IsDecode /\ call.encoded = Canonical /\ call.precision = 5) =>
        /\ result.kind = "value"
        /\ result.coordinates =
              << <<Rat(-12020000, 100000), Rat(3850000, 100000)>>,
                 <<Rat(-12095000, 100000), Rat(4070000, 100000)>>,
                 <<Rat(-12645300, 100000), Rat(4325200, 100000)>> >>
        /\ result.coordinates =
              << <<Rat(-1202, 10), Rat(385, 10)>>,
                 <<Rat(-12095, 100), Rat(407, 10)>>,
                 <<Rat(-126453, 1000), Rat(43252, 1000)>> >>

C6_Witness ==
    /\ IsDecode
    /\ call.encoded = Canonical
    /\ call.precision = 5
    /\ Len(result.coordinates) = 3

\* C7: getPositionOnPolyline on an empty path throws the empty-path error
\* whatever the position, and returns no coordinate.
C7_EmptyPathThrows ==
    (IsPosition /\ Len(call.polyline) = 0) =>
        /\ result.kind = "throw"
        /\ result.message = EmptyPathMessage

C7_Witness ==
    /\ IsPosition
    /\ call.polyline = <<>>
    /\ call.position = Rat(1, 2)
    /\ result.kind = "throw"

\* C8: getPositionOnPolyline on a one-element path returns that element
\* for every position, in [0,1] or not, and throws nothing.
C8_SinglePoint ==
    (IsPosition /\ Len(call.polyline) = 1) =>
        /\ result.kind = "value"
        /\ result.value = call.polyline[1]

C8_Witness ==
    /\ IsPosition
    /\ Len(call.polyline) = 1
    /\ call.position = Num(2)
    /\ result.kind = "value"

\* C9: the position is clamped to [0,1]: a position below 0 gives what
\* position 0 gives and a position above 1 gives what position 1 gives (the
\* first and the last coordinate of a path of two or more).
C9_PositionClamped ==
    IsPosition =>
        /\ NGt(Num(0), call.position) =>
              /\ result = GetPositionOnPolyline(call.polyline, Num(0))
              /\ Len(call.polyline) >= 2 => result.value = call.polyline[1]
        /\ NGt(call.position, Num(1)) =>
              /\ result = GetPositionOnPolyline(call.polyline, Num(1))
              /\ Len(call.polyline) >= 2 =>
                    result.value = call.polyline[Len(call.polyline)]

C9_Witness ==
    /\ IsPosition
    /\ Len(call.polyline) = 2
    /\ call.polyline[1] # call.polyline[2]
    /\ call.position = Rat(-1, 2)
    /\ result.value = call.polyline[1]

\* C10: on a path of two or more points position 0 gives the first
\* coordinate and position 1 the last.
C10_Endpoints ==
    (IsPosition /\ Len(call.polyline) >= 2) =>
        /\ call.position = Num(0) => result = Returned(call.polyline[1])
        /\ call.position = Num(1) =>
              result = Returned(call.polyline[Len(call.polyline)])

C10_Witness ==
    /\ IsPosition
    /\ Len(call.polyline) = 3
    /\ call.polyline[3] # call.polyline[2]
    /\ call.polyline[3] # call.polyline[1]
    /\ call.position = Num(1)
    /\ result.value = call.polyline[3]

\* the length of the path up to its point i, summed segment by segment
RECURSIVE LengthBefore(_, _)
LengthBefore(polyline, i) ==
    IF i <= 1 THEN Num(0)
    ELSE NAdd(LengthBefore(polyline, i - 1),
              HaversineDistance(polyline[i - 1], polyline[i]))

TotalLength(polyline) == LengthBefore(polyline, Len(polyline))

\* segment i (from point i to point i + 1) reaches the arc length t * total
Reaches(polyline, t, i) ==
    NGe(NAdd(LengthBefore(polyline, i),
             HaversineDistance(polyline[i], polyline[i + 1])),
        NMul(t, TotalLength(polyline)))

FirstReaching(polyline, t) ==
    CHOOSE i \in 1 .. Len(polyline) - 1 :
        /\ Reaches(polyline, t, i)
        /\ \A j \in 1 .. i - 1 : ~Reaches(polyline, t, j)

\* the call is getPositionOnPolyline(path, t), two or more points, 0 < t < 1
IsInterior ==
    /\ IsPosition
    /\ Len(call.polyline) >= 2
    /\ NGt(call.position, Num(0))
    /\ NGt(Num(1), call.position)

\* C11: on a path of two or more points and 0 < t < 1 some segment reaches
\* t * totalLength; with i the first one in path order, of positive length,
\* the value returned is start_i + (end_i - start_i) * f on longitude and on
\* latitude, f = (t * totalLength - length before i) / length(i).
C11_FirstReachingSegment ==
    IsInterior =>
        /\ \E i \in 1 .. Len(call.polyline) - 1 :
              Reaches(call.polyline, call.position, i)
        /\ LET i      == FirstReaching(call.polyline, call.position)
               start  == call.polyline[i]
               end    == call.polyline[i + 1]
               length == HaversineDistance(start, end)
               f      == NDiv(NSub(NMul(call.position,
                                        TotalLength(call.polyline)),
                                   LengthBefore(call.polyline, i)),
                              length)
           IN  /\ result.kind = "value"
               /\ NGt(length, Num(0)) =>
                     \A k \in 1 .. 2 :
                        result.value[k] =
                           NAdd(start[k], NMul(NSub(end[k], start[k]), f))

\* three quarters along 0 -> 1 -> 3 degrees of latitude is in the second
\* segment, at 1 + 2 * 5/8
C11_Witness ==
    /\ IsInterior
    /\ call.polyline = <<<<Num(0), Num(0)>>, <<Num(0), Num(1)>>,
                         <<Num(0), Num(3)>>>>
    /\ call.position = Rat(3, 4)
    /\ FirstReaching(call.polyline, call.position) = 2
    /\ result.value = <<Num(0), Rat(9, 4)>>

\* C12: when the segment selected has length 0 the fraction is 0 and the
\* start of the segment is returned, with no division by zero (no NaN in
\* the value returned); a path whose points all coincide, of total length
\* 0, is such a case.
C12_ZeroLengthSegment ==
    IsInterior =>
        LET i      == FirstReaching(call.polyline, call.position)
            length == HaversineDistance(call.polyline[i], call.polyline[i + 1])
        IN  /\ NEq(length, Num(0)) =>
                  /\ SegmentRatio(NSub(NMul(call.position,
                                            TotalLength(call.polyline)),
                                       LengthBefore(call.polyline, i)),
                                  length) = Num(0)
                  /\ result = Returned(call.polyline[i])
            /\ \A k \in 1 .. 2 : ~IsNaN(result.value[k])
            /\ NEq(TotalLength(call.polyline), Num(0)) =>
                  result = Returned(call.polyline[1])

C12_Witness ==
    /\ IsInterior
    /\ Len(call.polyline) = 3
    /\ call.polyline[1] = call.polyline[2]
    /\ call.polyline[2] = call.polyline[3]
    /\ call.polyline[1] = <<Num(0), Num(3)>>
    /\ call.position = Rat(1, 4)
    /\ result = Returned(<<Num(0), Num(3)>>)

IsFilter == call.fn = "filterPositionsWithinThreshold"

IsHaversine == call.fn = "haversineDistance"

\* degrees between two points that share a meridian or lie on the equator
\* less than half a turn apart
Separation(a, b) ==
    LET abs(x) == IF x.n < 0 THEN NNeg(x) ELSE x
    IN  NAdd(abs(NSub(a[1], b[1])), abs(NSub(a[2], b[2])))

\* R * degrees * pi / 180 <= metres, decided with a bound on pi
CertainlyWithin(degrees, metres) ==
    NLe(NMul(NDiv(NMul(Num(R), degrees), Num(180)), PiUpper), metres)

CertainlyBeyond(degrees, metres) ==
    \/ IsNaN(metres)
    \/ NGt(Num(0), metres)
    \/ NGt(degrees, Num(0))
        /\ NGe(NMul(NDiv(NMul(Num(R), degrees), Num(180)), PiLower), metres)

\* C13: filterPositionsWithinThreshold returns one boolean per position, in
\* order: element i is true iff the distance from centerPoint to
\* positions[i] is at most thresholdMeters; a position equal to the center
\* is true for every threshold >= 0.
C13_OneFlagPerPosition ==
    IsFilter =>
        /\ result.kind = "value"
        /\ Len(result.flags) = Len(call.positions)
        /\ \A i \in 1 .. Len(call.positions) :
              LET degrees == Separation(call.centerPoint, call.positions[i])
              IN  /\ CertainlyWithin(degrees, call.thresholdMeters)
                        => result.flags[i]
                  /\ CertainlyBeyond(degrees, call.thresholdMeters)
                        => ~result.flags[i]
                  /\ \/ CertainlyWithin(degrees, call.thresholdMeters)
                     \/ CertainlyBeyond(degrees, call.thresholdMeters)
                  /\ (call.positions[i] = call.centerPoint
                        /\ NGe(call.thresholdMeters, Num(0)))
                        => result.flags[i]

\* threshold 0: the position at the center is in, the one a degree away out
C13_Witness ==
    /\ IsFilter
    /\ call.centerPoint = <<Num(0), Num(1)>>
    /\ call.positions = <<<<Num(0), Num(0)>>, <<Num(0), Num(1)>>>>
    /\ call.thresholdMeters = Num(0)
    /\ result.flags = <<FALSE, TRUE>>

ParsedDuration ==
    [duration \in Durations |-> ParseDurationToSeconds(duration)]

\* the parsed durations of the steps before step i of the route, summed in
\* route order
RECURSIVE TimeBefore(_, _)
TimeBefore(steps, i) ==
    IF i <= 1 THEN Num(0)
    ELSE NAdd(TimeBefore(steps, i - 1),
              ParsedDuration[steps[i - 1].staticDuration])

TotalTime(steps) == TimeBefore(steps, Len(steps) + 1)

TargetTime(steps) == NDiv(TotalTime(steps), Num(2))

\* step i straddles the midpoint in time
Straddles(steps, i) ==
    NGe(TimeBefore(steps, i + 1), TargetTime(steps))

SomeStraddles(steps) == \E i \in 1 .. Len(steps) : Straddles(steps, i)

FirstStraddling(steps) ==
    CHOOSE i \in 1 .. Len(steps) :
        /\ Straddles(steps, i)
        /\ \A j \in 1 .. i - 1 : ~Straddles(steps, j)

\* the call went past the two early returns and some step straddles
Selects ==
    /\ IsMidpoint
    /\ call.steps # <<>>
    /\ ~NEq(TotalTime(call.steps), Num(0))
    /\ SomeStraddles(call.steps)

\* what decodePolyline gives for each polyline string of the steps
DecodedStepPolyline ==
    [encoded \in {step.encodedPolyline.v :
                      step \in {st \in Steps \cup PlainSteps :
                                   st.encodedPolyline # None}} |->
        DecodePolyline(encoded, DefaultPrecision)]

\* the polyline of a step is missing or is the empty string
HasNoPolyline(step) ==
    step.encodedPolyline = None \/ step.encodedPolyline = Some(<<>>)

\* C15: getRouteMidpointByDuration returns null on an empty steps, by its
\* first return, having decoded nothing.
C15_EmptyStepsNull ==
    (IsMidpoint /\ call.steps = <<>>) =>
        /\ result.kind = "null"
        /\ trace.exit = "empty"
        /\ trace.decoded = <<>>
        /\ trace.positions = <<>>

C15_Witness ==
    /\ IsMidpoint
    /\ Len(call.steps) = 0
    /\ result.kind = "null"
    /\ trace.exit = "empty"

\* C16: getRouteMidpointByDuration returns null whenever the parsed
\* durations sum to 0, and so whenever every duration is missing or parses
\* to 0, whichever steps have a polyline.
C16_ZeroTotalNull ==
    IsMidpoint =>
        /\ NEq(TotalTime(call.steps), Num(0)) =>
              result.kind = "null" /\ trace.decoded = <<>>
        /\ (\A i \in 1 .. Len(call.steps) :
                \/ call.steps[i].staticDuration = None
                \/ call.steps[i].staticDuration.v = <<>>
                \/ ParseFloat(ReplaceFirstS(call.steps[i].staticDuration.v))
                      = Num(0)) =>
              result.kind = "null" /\ trace.decoded = <<>>

\* a missing duration and "0s", both steps with a polyline
C16_Witness ==
    /\ IsMidpoint
    /\ Len(call.steps) = 2
    /\ call.steps[1].staticDuration = None
    /\ call.steps[2].staticDuration = Some(<<48, 115>>)
    /\ \A i \in 1 .. 2 : ~HasNoPolyline(call.steps[i])
    /\ result.kind = "null"
    /\ trace.exit = "zeroTotal"

\* the route has three steps of "60s"
ThreeOfSixty ==
    /\ Len(call.steps) = 3
    /\ \A i \in 1 .. 3 : call.steps[i].staticDuration = Some(<<54, 48, 115>>)

\* C17: with target = total / 2 the step selected is the first one in route
\* order whose duration added to those before it reaches the target, never
\* a later one; of three steps of 60s it is the second.
C17_FirstStraddlingStep ==
    Selects =>
        /\ trace.exit \in {"noPolyline", "emptyPolyline", "step"}
        /\ trace.targetTime = TargetTime(call.steps)
        /\ trace.i + 1 = FirstStraddling(call.steps)
        /\ trace.accumulatedTime = TimeBefore(call.steps, trace.i + 1)
        /\ trace.exit # "noPolyline" =>
              trace.decoded = <<call.steps[trace.i + 1].encodedPolyline.v>>
        /\ ThreeOfSixty => trace.i + 1 = 2

\* three steps of 60s, the second on the three-point line: its middle
C17_Witness ==
    /\ Selects
    /\ ThreeOfSixty
    /\ \A i \in 1 .. 3 : ~HasNoPolyline(call.steps[i])
    /\ call.steps[2].encodedPolyline # call.steps[1].encodedPolyline
    /\ call.steps[2].encodedPolyline # call.steps[3].encodedPolyline
    /\ trace.i = 1
    /\ trace.positions = <<Rat(1, 2)>>
    /\ result = Returned(<<Rat(5, 2), Num(0)>>)

\* C18: when the step that straddles the midpoint has no encoded polyline
\* the call returns null at once, with nothing decoded and nothing
\* interpolated, whatever polylines the other steps have.
C18_NoPolylineNoFallThrough ==
    (Selects /\ HasNoPolyline(call.steps[FirstStraddling(call.steps)])) =>
        /\ result.kind = "null"
        /\ trace.i + 1 = FirstStraddling(call.steps)
        /\ trace.decoded = <<>>
        /\ trace.positions = <<>>

\* "60s" on a line, then "100s" without one: the second step straddles
C18_Witness ==
    /\ Selects
    /\ Len(call.steps) = 2
    /\ FirstStraddling(call.steps) = 2
    /\ call.steps[2].encodedPolyline = None
    /\ ~HasNoPolyline(call.steps[1])
    /\ result.kind = "null"

C19_ZeroDurationReached ==
    /\ Selects
    /\ trace.exit = "step"
    /\ NEq(ParsedDuration[
              call.steps[FirstStraddling(call.steps)].staticDuration], Num(0))
    /\ trace.positions = <<Rat(1, 2)>>

\* the return statement taken is one of the fallback
InFallback == trace.exit \in {"fallback", "fallbackNull"}

\* C20: the fallback is reached only when the scan ends with no step whose
\* duration added to those before it reaches the target; the result is
\* then getPositionOnPolyline(decode(polyline of the last step), 0.5) when
\* the last step has a polyline and null otherwise.
C20_FallbackOnlyAfterScan ==
    IsMidpoint =>
        /\ InFallback <=>
              /\ call.steps # <<>>
              /\ ~NEq(TotalTime(call.steps), Num(0))
              /\ ~SomeStraddles(call.steps)
        /\ InFallback =>
              LET lastStep == call.steps[Len(call.steps)]
              IN  /\ trace.i = Len(call.steps)
                  /\ HasNoPolyline(lastStep) =>
                        result.kind = "null" /\ trace.decoded = <<>>
                  /\ ~HasNoPolyline(lastStep) =>
                        /\ trace.decoded = <<lastStep.encodedPolyline.v>>
                        /\ trace.positions = <<Rat(1, 2)>>
                        /\ result =
                              GetPositionOnPolyline(
                                  DecodedStepPolyline[lastStep.encodedPolyline.v],
                                  Rat(1, 2))

\* "-60s" then "1.5s": the total is -58.5 and the target -29.25, which
\* neither -60 nor -58.5 reaches; the last step is the straight line
C20_Witness ==
    /\ IsMidpoint
    /\ Len(call.steps) = 2
    /\ call.steps[1].staticDuration = Some(<<45, 54, 48, 115>>)
    /\ call.steps[2].staticDuration = Some(<<49, 46, 53, 115>>)
    /\ call.steps[1].encodedPolyline =
          Some(EncodePath(<<<<0, 100000>>, <<0, 100000>>, <<0, 200000>>>>))
    /\ call.steps[2].encodedPolyline =
          Some(EncodePath(<<<<0, 0>>, <<200000, 0>>>>))
    /\ InFallback
    /\ result = Returned(<<Num(0), Num(1)>>)

\* C21: when no step of the route has an encoded polyline the call returns
\* null, having decoded nothing, whatever the durations are.
C21_NoPolylinesNull ==
    (IsMidpoint /\ \A i \in 1 .. Len(call.steps) : HasNoPolyline(call.steps[i]))
        => /\ result.kind = "null"
           /\ trace.decoded = <<>>
           /\ trace.positions = <<>>

\* "-60s" and "s" with an empty and a missing polyline: the scan selects
\* nothing and the fallback finds no polyline
C21_Witness ==
    /\ IsMidpoint
    /\ Len(call.steps) = 2
    /\ call.steps[1].staticDuration = Some(<<45, 54, 48, 115>>)
    /\ call.steps[2].staticDuration = Some(<<115>>)
    /\ call.steps[1].encodedPolyline = None
    /\ call.steps[2].encodedPolyline = Some(<<>>)
    /\ trace.exit = "fallbackNull"
    /\ result.kind = "null"

\* C26: getRouteMidpointByDuration never throws: a position is handed to
\* getPositionOnPolyline only together with the decoding of a non-empty
\* string, which has at least one coordinate, as the decoding of every
\* non-empty string has.
C26_NeverEmptyPathError ==
    /\ IsMidpoint =>
          /\ result.kind # "throw"
          /\ trace.positions # <<>> =>
                /\ Len(trace.decoded) = 1
                /\ trace.decoded[1] # <<>>
                /\ Len(DecodedStepPolyline[trace.decoded[1]]) >= 1
    /\ IsDecode =>
          (call.encoded # <<>> <=> Len(result.coordinates) >= 1)

\* a step of "60s" whose polyline is "?": one coordinate, no error
C26_Witness ==
    /\ IsMidpoint
    /\ Len(call.steps) = 1
    /\ call.steps[1].encodedPolyline = Some(<<63>>)
    /\ trace.exit = "step"
    /\ Len(DecodedStepPolyline[<<63>>]) = 1
    /\ result.kind = "value"

\* a parsed duration that is a number, zero or more
NonNegative(x) == NGe(x, Num(0))

\* every duration of the route is finite and non-negative, their sum positive
PositiveRoute ==
    /\ IsMidpoint
    /\ \A i \in 1 .. Len(call.steps) :
          NonNegative(ParsedDuration[call.steps[i].staticDuration])
    /\ NGt(TotalTime(call.steps), Num(0))

Between(x, a, b) ==
    \/ NLe(a, x) /\ NLe(x, b)
    \/ NLe(b, x) /\ NLe(x, a)

\* C28: on a path of two or more points and 0 < t < 1 the walk selects a
\* segment before it runs out of segments, the fraction within it lies in
\* [0, 1], and each component of the coordinate returned lies between the
\* same components of the two ends of that segment.
C28_WalkStaysInSegment ==
    IsInterior =>
        /\ \E i \in 1 .. Len(call.polyline) - 1 :
              Reaches(call.polyline, call.position, i)
        /\ LET i      == FirstReaching(call.polyline, call.position)
               start  == call.polyline[i]
               end    == call.polyline[i + 1]
               length == HaversineDistance(start, end)
               ratio  == SegmentRatio(
                             NSub(NMul(call.position,
                                       TotalLength(call.polyline)),
                                  LengthBefore(call.polyline, i)),
                             length)
           IN  /\ NGe(ratio, Num(0))
               /\ NLe(ratio, Num(1))
               /\ \A k \in 1 .. 2 :
                     Between(result.value[k], start[k], end[k])

\* a quarter along 3 -> 0 -> 1 degrees of longitude: between 3 and 0
C28_Witness ==
    /\ IsInterior
    /\ call.polyline = <<<<Num(3), Num(0)>>, <<Num(0), Num(0)>>,
                         <<Num(1), Num(0)>>>>
    /\ call.position = Rat(1, 4)
    /\ FirstReaching(call.polyline, call.position) = 1
    /\ result.value = <<Num(2), Num(0)>>

\* what a function gives on the arguments that a call record holds
OutcomeOf(c) ==
    CASE c.fn = "decodePolyline" ->
            ReturnedCoordinates(DecodePolyline(c.encoded, c.precision))
      [] c.fn = "getPositionOnPolyline" ->
            GetPositionOnPolyline(c.polyline, c.position)
      [] c.fn = "getRouteMidpointByDuration" ->
            GetRouteMidpointByDuration(c.steps)
      [] c.fn = "haversineDistance" ->
            ReturnedDistance(HaversineDistance(c.coord1, c.coord2))
      [] c.fn = "filterPositionsWithinThreshold" ->
            ReturnedFlags(FilterPositionsWithinThreshold(
                c.centerPoint, c.positions, c.thresholdMeters))

InInnerLoop == decoder.pc \in {"latitude", "longitude"}

\* a step of an inner loop moves the index forward by one
IndexAdvances ==
    InInnerLoop => decoder'.index = decoder.index + 1

\* a step of an inner loop that reads past the end of the string leaves
\* the loop
StopsPastTheEnd ==
    (InInnerLoop /\ decoder.index >= Len(decoder.encoded))
        => decoder'.pc # decoder.pc

\* the test of the outer loop ends the run once the index has reached the
\* length of the string, and no other step does
ExitsAtTheEnd ==
    (decoder'.pc = "done") <=>
        \/ decoder.pc = "done" /\ UNCHANGED decoder
        \/ decoder.pc = "while" /\ decoder.index >= Len(decoder.encoded)

\* C23: decodePolyline terminates on every string, well-formed or not:
\* every step of an inner loop moves the index forward, an inner loop is
\* left by the step that reads past the end of the string at the latest
\* (the index never passes the length by more than 2), the outer loop ends
\* once the index has reached the length, and every run that has started
\* reaches its return statement, with the coordinates decodePolyline gives.
C23_DecodeTerminates ==
    /\ [][IndexAdvances /\ StopsPastTheEnd /\ ExitsAtTheEnd]_vars
    /\ [](decoder.index <= Len(decoder.encoded) + 2)
    /\ [](decoder.pc = "done" =>
            decoder.coordinates =
               DecodePolyline(decoder.encoded, decoder.precision))
    /\ (decoder.pc # "idle") ~> (decoder.pc = "done")

\* "_" ends inside its only group: both inner loops are left by a read past
\* the end, and the run returns one coordinate with the index at 3
C23_Witness ==
    /\ decoder.pc = "done"
    /\ decoder.encoded = <<95>>
    /\ decoder.index = 3
    /\ Len(decoder.coordinates) = 1

\* the debounced value changes while the component stays mounted
Emits ==
    /\ debounce.mounted
    /\ debounce'.mounted
    /\ debounce'.debouncedValue # debounce.debouncedValue

\* C24: useDebounce emits a new debounced value only when it is the input
\* and the input has been that value for a full delay; a render with
\* another value or delay leaves only its own timer set, so a value replaced
\* within the delay is never emitted; and unless the input, the delay or the
\* mounting keeps changing, the debounced value ends up equal to the input.
C24_DebounceEmitsSettledInput ==
    /\ [][Emits => /\ debounce'.debouncedValue = debounce.value
                    /\ debounce.held >= debounce.delay]_vars
    /\ [](debounce.mounted =>
            debounce.timers \subseteq {debounce.timer})
    /\ \/ []<><<DebounceRender \/ DebounceMount \/ DebounceUnmount>>_vars
       \/ <>[](~debounce.mounted)
       \/ <>[](debounce.debouncedValue = debounce.value)

\* "a" replaced by "ab", held for the delay of 2 ticks, now emitted
C24_Witness ==
    /\ debounce.mounted
    /\ debounce.value = "ab"
    /\ debounce.delay = 2
    /\ debounce.held = 2
    /\ debounce.debouncedValue = "ab"
    /\ debounce.timers = {}

\* a required parameter that the request does not carry
Missing(body) ==
    \/ body.kind # "object"
    \/ \E field \in RequiredFields : body[field] = "undefined"

RouteOneCallAtMost == route.calls <= 1

RouteAlwaysAnswers ==
    (route.pc # "idle") ~> (route.pc = "answered" /\ route.answer.sent)

RouteKeyNotConfigured ==
    route.pc = "answered" /\ route.apiKey # "key" =>
        /\ ~route.answer.success
        /\ route.answer.status = 500
        /\ route.calls = 0

\* the validation as the handler performs it: on a body that parsed to
\* something other than null
RouteMissingInParsedBody ==
    /\ route.pc = "answered"
    /\ route.apiKey = "key"
    /\ route.body.kind \in {"object", "number"}
    /\ Missing(route.body)
    => /\ ~route.answer.success
       /\ route.answer.status = 400
       /\ route.calls = 0

\* C25: the POST handler calls the directions API at most once per request
\* and always answers with an envelope; without a configured key the
\* answer is success false with status 500, and with a key but one of
\* originLat, originLng, destinationLat, destinationLng missing from the
\* request it is success false with status 400, the directions API not
\* having been called in either case.
C25_RouteEnvelope ==
    /\ []RouteOneCallAtMost
    /\ RouteAlwaysAnswers
    /\ []RouteKeyNotConfigured
    /\ [](route.pc = "answered" /\ route.apiKey = "key"
              /\ Missing(route.body) =>
                  /\ ~route.answer.success
                  /\ route.answer.status = 400
                  /\ route.calls = 0)

\* C29: in MapSearch, once no suggest request is in flight, the results
\* shown are those of the most recent debounced query, and none when that
\* query is blank: a late response to an older query does not replace the
\* results of a newer one.
C29_LatestQueryResults ==
    search.inFlight = {} =>
        /\ search.results.listed = (search.latest = "suggestions")
        /\ search.results.listed =>
              search.results.query = search.debouncedQuery
        /\ Trim(search.debouncedQuery) = <<>> => ~search.results.listed

\* the feature arrays of the pages, transformed, one after the other
RECURSIVE Concatenated(_)
Concatenated(pages) ==
    IF pages = <<>> THEN <<>>
    ELSE TransformResponse(Head(pages)) \o Concatenated(Tail(pages))

\* a page that is empty or has fewer than MAX_RECORDS features
ShortPage(features) == Len(features) < MAX_RECORDS

\* the request just made has failed
RequestFailed ==
    pubs.data.fetched # "none" /\ RequestError(pubs.data) # NoError

\* requests are made at offsets 0, MAX_RECORDS, 2 * MAX_RECORDS, ..., each
\* after the page before it was received and found full
OffsetsInOrder ==
    /\ \A i \in 1 .. Len(pubs.offsets) :
          pubs.offsets[i] = (i - 1) * MAX_RECORDS
    /\ Len(pubs.offsets) - Len(pubs.pages) \in {0, 1}
    /\ pubs.pc = "while" =>
          /\ pubs.offset = Len(pubs.offsets) * MAX_RECORDS
          /\ Len(pubs.pages) = Len(pubs.offsets)
          /\ \A i \in 1 .. Len(pubs.pages) : ~ShortPage(pubs.pages[i])

\* the collection returned: after a short page, the first one, and made
\* of the features of all pages in the order of the requests
ReturnsAllPages ==
    pubs.pc = "settled" /\ pubs.outcome.kind = "value" =>
        /\ pubs.pages # <<>>
        /\ \A i \in 1 .. Len(pubs.pages) :
              ShortPage(pubs.pages[i]) <=> i = Len(pubs.pages)
        /\ pubs.outcome.features = Concatenated(pubs.pages)

\* a failure: a LondonGISError and no features
FailureRaises ==
    /\ RequestFailed => pubs.pc = "settled" /\ pubs.outcome.kind = "throw"
    /\ pubs.outcome.kind = "throw" =>
          /\ pubs.outcome.error.name = "LondonGISError"
          /\ pubs.outcome.features = <<>>

\* a short page ends the run there and then, a full one never does
PageDecides ==
    pubs.pc = "data" =>
        /\ ShortPage(pubs.data.features) =>
              pubs'.pc = "settled" /\ pubs'.offsets = pubs.offsets
        /\ ~ShortPage(pubs.data.features)
              /\ ~TransformThrows(pubs.data.features) =>
                  /\ pubs'.pc = "while"
                  /\ pubs'.offset = pubs.offset + MAX_RECORDS

\* C30: fetchAllPubs asks for pages at offsets 0, MAX_RECORDS,
\* 2 * MAX_RECORDS, ... one at a time, stops at the first page that is
\* empty or has fewer than MAX_RECORDS features, and returns the features
\* of all pages in the order they were fetched; a short page or a failed
\* request ends the run and nothing else does, and a failure raises a
\* LondonGISError with no collection returned.
C30_PagesUntilShort ==
    /\ []OffsetsInOrder
    /\ []ReturnsAllPages
    /\ []FailureRaises
    /\ [][PageDecides]_vars
    /\ (pubs.pc # "idle") ~> (pubs.pc = "settled")

\* two full pages and a page of one feature, returned as five features
C30_Witness ==
    /\ pubs.pc = "settled"
    /\ pubs.outcome.kind = "value"
    /\ pubs.offsets = <<0, MAX_RECORDS, 2 * MAX_RECORDS>>
    /\ Len(pubs.pages[3]) = MAX_RECORDS - 1
    /\ Len(pubs.outcome.features) = 2 * MAX_RECORDS + MAX_RECORDS - 1
    /\ pubs.outcome.features[1].id = 1


=============================================================================
